---- MODULE Spec2Model ----
(***************************************************************************)
(* Verification model of maidhci/fiosfon: the intensity scorer of          *)
(* script.js, the cache/enrichment step of the updater scripts and the     *)
(* chart/record merger of script.js.                                       *)
(*                                                                         *)
(* Three specifications share the module; each one moves only its own      *)
(* variables and leaves the others at their initial value:                 *)
(*   SpecScore   computePrivacyScore applied to a record that grows        *)
(*   SpecEnrich  enrichApps / mergePrivacy over a persisted cache          *)
(*   SpecMerge   mergeAppsByName as called by loadBoards                   *)
(***************************************************************************)
EXTENDS Integers, Sequences, FiniteSets, TLC

(***************************************************************************)
(* Bounds of the model (not program constants).                            *)
(***************************************************************************)
\* how many categories of the taxonomy (in table order) a record may use
NumCats == 2
\* how many purposes of PURPOSE_BONUS (in table order) a detail may use
NumPurposes == 1

\* how many entries the chart of a pipeline run has
NumApps == 3
\* how many pipeline runs are followed
MaxRuns == 2
\* how many entries data/apps.json has when the page loads it
MaxLocal == 2

VARIABLES
    app,        \* the entry handed to renderRiskMeter / computePrivacyScore
    risk,       \* what computePrivacyScore returned for app
    variant,    \* which updater script runs: its enrichment step
    now,        \* Date.now(), in days
    cache,      \* data/privacy_cache/<id>.json, per numeric id
    outFile,    \* data/apps.json: the entries the previous run wrote
    runs,       \* completed pipeline runs
    pc,         \* "idle" between runs, "run" while a run enriches its entries
    out,        \* the entries the current run has produced, by chart position
    tasks,      \* enrichApps: the state of each limited task
    cache0,     \* the cache as the current run found it
    scraped,    \* ids scrapePrivacyForApp was invoked for in the current run
    looked,     \* ids lookupFromiTunes was invoked for in the current run
    written,    \* ids whose cache file the current run wrote (or tried to)
    loaded,     \* ids whose cache file the current run read
    failed,     \* ids whose scrape threw in the current run
    localApps,  \* script.js state.localApps
    fetched,    \* script.js loadBoards: what safeFetch returned, per board
    boards,     \* script.js state.boards[k].apps
    mpc,        \* script.js loadBoards: "local", then the board to fetch, then "ready"
    script,     \* which updater's run()/main() is followed step by step
    feeds,      \* the parsed free, paid and games charts of that run
    rpc,        \* where run()/main() is: "start", "enrich", "written", "aborted"
    combined,   \* the deduplicated entries handed to the enrichment
    rtasks,     \* one enrichment call per entry of combined: stage and locals
    results,    \* the entries the enrichment calls returned, by position
    browsers,   \* the calls whose puppeteer browser is launched and not closed
    rcache,     \* data/privacy_cache/<id>.json during that run
    final,      \* what that run wrote to data/apps.json, per board
    extractor,  \* which extractor's token clean-up is applied
    harvested,  \* the raw tokens page.evaluate returned, per heading
    composed,   \* the privacy_labels the extractor composed from them
    npc,        \* "harvest" until the clean-up ran, then "composed", "again"
    pex,        \* which extractor's scrapePrivacyForApp visits the page
    webpage,    \* the store page: when its headings appear, its chips and rows
    ppc,        \* where that scrapePrivacyForApp is
    reloads,    \* how often it loaded the unanchored URL
    returned,   \* what it returned: nothing yet, a record, or a thrown error
    query,      \* script.js search: input.value.trim().toLowerCase()
    resultsFor, \* the query whose results the result list shows
    debounce,   \* the query of the pending debounce timer, if one is pending
    requests,   \* the live searches started: query and state of each
    searchAbort,\* the request the current AbortController belongs to
    typed       \* how many input events happened

scoreVars == <<app, risk>>
enrichVars == <<variant, now, cache, outFile, runs, pc, out, tasks, cache0,
                scraped, looked, written, loaded, failed>>
mergeVars == <<localApps, fetched, boards, mpc>>
runVars == <<script, feeds, rpc, combined, rtasks, results, browsers, rcache, final>>
normVars == <<extractor, harvested, composed, npc>>
pageVars == <<pex, webpage, ppc, reloads, returned>>
searchVars == <<query, resultsFor, debounce, requests, searchAbort, typed>>
vars == <<app, risk, variant, now, cache, outFile, runs, pc, out, tasks, cache0,
          scraped, looked, written, loaded, failed, localApps, fetched, boards, mpc,
          script, feeds, rpc, combined, rtasks, results, browsers, rcache, final,
          extractor, harvested, composed, npc,
          pex, webpage, ppc, reloads, returned,
          query, resultsFor, debounce, requests, searchAbort, typed>>

(***************************************************************************)
(* script.js: risk meter tables                                            *)
(***************************************************************************)
TRACK == "Data Used to Track You"
LINKED == "Data Linked to You"
NOT_LINKED == "Data Not Linked to You"
HEADS == {TRACK, LINKED, NOT_LINKED}

\* the categories in the order of the RISK_WEIGHTS tables
TAXONOMY ==
    << "Identifiers", "Location", "Contact Info", "Financial Info",
       "Health & Fitness", "Browsing/Search History", "User Content",
       "Purchases", "Usage Data", "Diagnostics", "Photos or Videos",
       "Audio Data", "Messages", "Contacts", "Sensitive Info" >>

RISK_WEIGHTS ==
    [ track |->
        ( "Identifiers" :> 12 @@ "Location" :> 12 @@ "Contact Info" :> 10 @@
          "Financial Info" :> 12 @@ "Health & Fitness" :> 12 @@
          "Browsing/Search History" :> 10 @@ "User Content" :> 8 @@
          "Purchases" :> 6 @@ "Usage Data" :> 6 @@ "Diagnostics" :> 2 @@
          "Photos or Videos" :> 8 @@ "Audio Data" :> 6 @@ "Messages" :> 10 @@
          "Contacts" :> 8 @@ "Sensitive Info" :> 12 ),
      linked |->
        ( "Identifiers" :> 9 @@ "Location" :> 9 @@ "Contact Info" :> 8 @@
          "Financial Info" :> 9 @@ "Health & Fitness" :> 9 @@
          "Browsing/Search History" :> 8 @@ "User Content" :> 7 @@
          "Purchases" :> 4 @@ "Usage Data" :> 4 @@ "Diagnostics" :> 1 @@
          "Photos or Videos" :> 7 @@ "Audio Data" :> 5 @@ "Messages" :> 8 @@
          "Contacts" :> 6 @@ "Sensitive Info" :> 10 ),
      notLinked |->
        ( "Identifiers" :> 2 @@ "Location" :> 2 @@ "Contact Info" :> 2 @@
          "Financial Info" :> 2 @@ "Health & Fitness" :> 2 @@
          "Browsing/Search History" :> 2 @@ "User Content" :> 2 @@
          "Purchases" :> 1 @@ "Usage Data" :> 1 @@ "Diagnostics" :> 1 @@
          "Photos or Videos" :> 2 @@ "Audio Data" :> 1 @@ "Messages" :> 2 @@
          "Contacts" :> 1 @@ "Sensitive Info" :> 3 ) ]

\* the purposes in the order of the PURPOSE_BONUS table
PURPOSES ==
    << "Advertising", "Developer's Advertising", "Personalization",
       "Product Personalization", "Analytics", "Fraud Prevention",
       "App Functionality", "Other Purposes" >>

PURPOSE_BONUS ==
    ( "Advertising" :> 6 @@ "Developer's Advertising" :> 4 @@
      "Personalization" :> 4 @@ "Product Personalization" :> 3 @@
      "Analytics" :> 2 @@ "Fraud Prevention" :> 3 @@
      "App Functionality" :> 0 @@ "Other Purposes" :> 1 )

SECTION_CAPS == [track |-> 70, linked |-> 50, notLinked |-> 20]

\* bonus of a category listed outside the tracking bucket whose detail says tracked
TRACKED_BONUS == 3
\* the max smoothScale is called with (70 + 50 + 20)
RAW_MAX == 140
\* score >= 66 -> High, score >= 33 -> Medium
BAND_HIGH == 66
BAND_MEDIUM == 33

(***************************************************************************)
(* Fixed-point arithmetic: section scores and the raw total are kept in    *)
(* units of 1/Scale, so Math.sqrt is an integer square root of the scaled  *)
(* radicand.                                                               *)
(***************************************************************************)
Scale == 500

Min(a, b) == IF a <= b THEN a ELSE b
Max(a, b) == IF a >= b THEN a ELSE b

RECURSIVE IsqrtIn(_, _, _)
\* the largest r in lo..hi with r*r <= x (hi*hi stays below 2^31)
IsqrtIn(x, lo, hi) ==
    IF lo >= hi THEN lo
    ELSE LET mid == (lo + hi + 1) \div 2
         IN  IF mid * mid <= x THEN IsqrtIn(x, mid, hi)
                               ELSE IsqrtIn(x, lo, mid - 1)

Isqrt(x) == IsqrtIn(x, 0, 46340)

RECURSIVE SumOver(_, _)
\* sum of f[x] over the finite set S
SumOver(S, f) ==
    IF S = {} THEN 0
    ELSE LET x == CHOOSE y \in S : TRUE
         IN  f[x] + SumOver(S \ {x}, f)

(***************************************************************************)
(* script.js: smoothScale followed by Math.round.                          *)
(* t = clamp(x / max, 0, 1) is kept in units of 1/TUnit.  LOGISTIC_STEPS[n]*)
(* is the least t at which 100 / (1 + e^(-5 (t - 0.5))) rounds to n or     *)
(* more, i.e. ceil(TUnit * (0.5 + ln((n - 0.5) / (100.5 - n)) / 5)); the   *)
(* rounded value is therefore the number of steps that t has reached.      *)
(***************************************************************************)
TUnit == RAW_MAX * Scale

LOGISTIC_STEPS ==
    << -39106, -23584, -16289, -11434, -7770, -4813, -2326, -172, 1733, 3444,
       5000, 6431, 7758, 8996, 10159, 11258, 12300, 13292, 14241, 15151,
       16026, 16870, 17686, 18476, 19244, 19991, 20719, 21429, 22123, 22803,
       23470, 24125, 24768, 25401, 26025, 26641, 27248, 27849, 28443, 29032,
       29615, 30194, 30769, 31340, 31908, 32474, 33037, 33599, 34160, 34720,
       35281, 35841, 36402, 36964, 37527, 38093, 38661, 39232, 39807, 40386,
       40969, 41558, 42152, 42753, 43360, 43976, 44600, 45233, 45876, 46531,
       47198, 47878, 48572, 49282, 50010, 50757, 51525, 52315, 53131, 53975,
       54850, 55760, 56709, 57701, 58743, 59842, 61005, 62243, 63570, 65001,
       66557, 68268, 70173, 72327, 74814, 77771, 81435, 86290, 93585, 109107 >>

RECURSIVE StepsReached(_, _, _)
\* the number of steps of the ascending LOGISTIC_STEPS that t has reached,
\* searched between lo and hi
StepsReached(t, lo, hi) ==
    IF lo >= hi THEN lo
    ELSE LET mid == (lo + hi + 1) \div 2
         IN  IF t >= LOGISTIC_STEPS[mid] THEN StepsReached(t, mid, hi)
                                         ELSE StepsReached(t, lo, mid - 1)

\* Math.round(smoothScale(x, max)), x in units of 1/Scale
smoothScale(x, max) ==
    LET t == Max(0, Min(TUnit, (x * (TUnit \div Scale)) \div max))
    IN  StepsReached(t, 0, Len(LOGISTIC_STEPS))

(***************************************************************************)
(* script.js: computePrivacyScore                                          *)
(***************************************************************************)
Cats == {TAXONOMY[i] : i \in 1..NumCats}
Purposes == {PURPOSES[i] : i \in 1..NumPurposes}

\* details[cat] when the entry has no detail for cat
NoDetail == [present |-> FALSE, purposes |-> {}, tracked |-> FALSE]
\* app.privacy_labels when the entry has no such field
NoLabels == [present |-> FALSE, buckets |-> [h \in HEADS |-> {}]]

\* labels[head] || []
sectionItems(a, head) ==
    IF a.privacy_labels.present THEN a.privacy_labels.buckets[head] ELSE {}

\* the mutant of categoryBase: the purpose bonus replaces the weight
categoryBaseAssign(sectionName, cat, weights, details) ==
    LET det == details[cat]
    IN  IF det.present /\ det.purposes # {}
        THEN LET p == CHOOSE q \in det.purposes :
                        \A r \in det.purposes : PURPOSE_BONUS[q] <= PURPOSE_BONUS[r]
             IN  PURPOSE_BONUS[p]
                 + (IF sectionName # "track" /\ det.tracked THEN TRACKED_BONUS ELSE 0)
        ELSE weights[cat]

\* the body of set.forEach in scoreSection: weight, purpose bonuses, tracked bonus
categoryBase(sectionName, cat, weights, details) ==
    LET det == details[cat]
    IN  weights[cat]
        + (IF det.present
           THEN SumOver(det.purposes, PURPOSE_BONUS)
                + (IF sectionName # "track" /\ det.tracked THEN TRACKED_BONUS ELSE 0)
           ELSE 0)

\* sum of categoryBase over the unique categories of a section
sectionSum(sectionName, items, weights, details) ==
    SumOver(items, [cat \in items |-> categoryBase(sectionName, cat, weights, details)])

\* Math.min(Math.sqrt(sum) * Math.sqrt(cap), cap), in units of 1/Scale
scoreSection(sectionName, items, weights, cap, details) ==
    LET sum == sectionSum(sectionName, items, weights, details)
    IN  IF sum >= cap THEN cap * Scale
        ELSE Min(Isqrt(sum * cap * Scale * Scale), cap * Scale)

\* the mutant of bandOf: the High threshold is exclusive
bandOfExclusive(score) ==
    IF score > BAND_HIGH THEN "High"
    ELSE IF score >= BAND_MEDIUM THEN "Medium"
    ELSE "Low"

bandOf(score) ==
    IF score >= BAND_HIGH THEN "High"
    ELSE IF score >= BAND_MEDIUM THEN "Medium"
    ELSE "Low"

computePrivacyScore(a) ==
    LET details == a.privacy_details
        sTrack == scoreSection("track", sectionItems(a, TRACK),
                               RISK_WEIGHTS.track, SECTION_CAPS.track, details)
        sLinked == scoreSection("linked", sectionItems(a, LINKED),
                                RISK_WEIGHTS.linked, SECTION_CAPS.linked, details)
        sNotLinked == scoreSection("notLinked", sectionItems(a, NOT_LINKED),
                                   RISK_WEIGHTS.notLinked, SECTION_CAPS.notLinked, details)
        raw == sTrack + sLinked + sNotLinked
        score == smoothScale(raw, RAW_MAX)
    IN  [score |-> score, band |-> bandOf(score),
         parts |-> [sTrack |-> sTrack, sLinked |-> sLinked, sNotLinked |-> sNotLinked]]

(***************************************************************************)
(* Strings are sequences of one-character strings, so that lower-casing,   *)
(* whitespace collapsing, trimming and concatenation are computed.         *)
(***************************************************************************)
LOWER ==
    ( "A" :> "a" @@ "B" :> "b" @@ "C" :> "c" @@ "D" :> "d" @@ "E" :> "e" @@
      "F" :> "f" @@ "G" :> "g" @@ "H" :> "h" @@ "I" :> "i" @@ "J" :> "j" @@
      "K" :> "k" @@ "L" :> "l" @@ "M" :> "m" @@ "N" :> "n" @@ "O" :> "o" @@
      "P" :> "p" @@ "Q" :> "q" @@ "R" :> "r" @@ "S" :> "s" @@ "T" :> "t" @@
      "U" :> "u" @@ "V" :> "v" @@ "W" :> "w" @@ "X" :> "x" @@ "Y" :> "y" @@
      "Z" :> "z" )

\* String.prototype.toLowerCase
toLowerCase(str) ==
    [i \in 1..Len(str) |-> IF str[i] \in DOMAIN LOWER THEN LOWER[str[i]] ELSE str[i]]

\* the characters \s matches
WHITESPACE == {" ", "\t", "\n"}

RECURSIVE collapseWs(_)
\* replace(/\s+/g, ' '): every run of whitespace becomes one space
collapseWs(str) ==
    IF str = <<>> THEN <<>>
    ELSE IF Head(str) \in WHITESPACE
         THEN IF Len(str) > 1 /\ str[2] \in WHITESPACE
              THEN collapseWs(Tail(str))
              ELSE <<" ">> \o collapseWs(Tail(str))
         ELSE <<Head(str)>> \o collapseWs(Tail(str))

RECURSIVE trimStart(_)
trimStart(str) ==
    IF str # <<>> /\ Head(str) \in WHITESPACE THEN trimStart(Tail(str)) ELSE str

RECURSIVE trimEnd(_)
trimEnd(str) ==
    IF str # <<>> /\ str[Len(str)] \in WHITESPACE
    THEN trimEnd(SubSeq(str, 1, Len(str) - 1)) ELSE str

\* String.prototype.trim
trim(str) == trimEnd(trimStart(str))

(***************************************************************************)
(* Entries of the charts and of apps.json.  A field the JS object does not *)
(* have is a record with present = FALSE (privacy_labels,                  *)
(* tracking_summary), the empty string (developer_website_url) or 0        *)
(* (app_id: `!app.app_id` holds for undefined, null and "").               *)
(***************************************************************************)
NoSummary == [present |-> FALSE, track |-> FALSE, linked |-> FALSE]
NoUrl == <<>>

Labels(buckets) == [present |-> TRUE, buckets |-> buckets]

\* the privacy fields of an entry
PrivacyFields(e) ==
    [privacy_labels |-> e.privacy_labels,
     tracking_summary |-> e.tracking_summary,
     developer_website_url |-> e.developer_website_url]

HasNoPrivacyFields(e) ==
    /\ ~e.privacy_labels.present
    /\ ~e.tracking_summary.present
    /\ e.developer_website_url = NoUrl

(***************************************************************************)
(* The chart of a run, the persisted cache and the scraper's results.      *)
(***************************************************************************)
NAME_POOL ==
    << <<"A","c","m","e">>, <<"B","e","t","a">>, <<"G","a","m","m","a">>,
       <<"D","e","l","t","a">>, <<"Z","e","t","a">> >>
DEVELOPER == <<"D","e","v"," ","L","t","d">>

\* the link of a feed entry and the App Store page of an id
RSS_LINK == "App Store (RSS)"
STORE_PAGE == "App Store (IE)"
\* what lookupFromiTunes returns as sellerUrl, what the page shows as developer site
SELLER_URL == <<"s","e","l","l","e","r">>
SITE_URL == <<"s","i","t","e">>

\* every second entry of the feed has a link without id(\d+)
ChartId(i) == IF i % 2 = 0 THEN 0 ELSE 111 * i

\* parseAppFromRssEntry / parseRssApps / fetchAppleChart: one chart entry
ChartApp(i) ==
    [rank |-> i,
     name |-> NAME_POOL[i],
     developer |-> DEVELOPER,
     app_id |-> ChartId(i),
     sources |-> <<RSS_LINK>>,
     privacy_labels |-> NoLabels,
     tracking_summary |-> NoSummary,
     developer_website_url |-> NoUrl]

Positions == 1..NumApps
Ids == {ChartId(i) : i \in Positions} \ {0}

\* 14*24*3600*1000 ms, in days
TTL_DAYS == 14
\* Date.now() of the first run, in days
NOW0 == 20
\* the days that pass before a run starts
RunGaps == {1, TTL_DAYS}

\* the buckets of the spec's scenario and a second page
LABELS_A == Labels((TRACK :> {"Identifiers", "Location"}) @@ (LINKED :> {}) @@ (NOT_LINKED :> {}))
LABELS_B == Labels((TRACK :> {}) @@ (LINKED :> {"Identifiers"}) @@ (NOT_LINKED :> {"Diagnostics"}))

\* what JSON.parse of a missing or unparsable cache file gives: null
NoRecord ==
    [present |-> FALSE, as_of |-> 0, privacy_labels |-> NoLabels,
     developer_website_url |-> NoUrl]

\* the record scrapePrivacyForApp composes
Record(asOf, labels, site) ==
    [present |-> TRUE, as_of |-> asOf, privacy_labels |-> labels,
     developer_website_url |-> site]

NoFile == [kind |-> "none", rec |-> NoRecord]
CorruptFile == [kind |-> "corrupt", rec |-> NoRecord]
File(rec) == [kind |-> "record", rec |-> rec]

\* readJson(cachePath) / loadCache(id): null unless the file parses
readJson(c, id) == IF c[id].kind = "record" THEN c[id].rec ELSE NoRecord

\* the cache files a first run may find: none, unparsable, or a record that
\* was 15 or 12 days old the day before
InitialFiles ==
    {NoFile, CorruptFile}
    \cup {File(Record(NOW0 - age, LABELS_A, NoUrl)) : age \in {TTL_DAYS + 1, TTL_DAYS - 2}}

\* the results of scrapePrivacyForApp: a thrown error or a record
ScrapeFailure == [ok |-> FALSE, rec |-> NoRecord]
ScrapeOutcomes(t) ==
    {ScrapeFailure}
    \cup {[ok |-> TRUE, rec |-> Record(t, LABELS_B, u)] : u \in {NoUrl, SITE_URL}}

\* the results of fs.writeFile on a cache file: written, refused (file untouched)
\* or failed after truncating it
WriteOutcomes == {"ok", "refused", "truncated"}

\* the mutant of fileAfterWrite: the write leaves the file as it was
fileAfterWriteKept(old, rec, wr) == old

\* the file after writeJson / saveCache with the given outcome
fileAfterWrite(old, rec, wr) ==
    IF wr = "ok" THEN File(rec)
    ELSE IF wr = "truncated" THEN CorruptFile
    ELSE old

\* lookupFromiTunes: the seller url, or null
LookupOutcomes == {NoUrl, SELLER_URL}

RECURSIVE mergeSources(_, _)
\* new Map(sources by url) followed by srcs.set(url) for each cached source
mergeSources(srcs, cachedSrcs) ==
    IF cachedSrcs = <<>> THEN srcs
    ELSE LET u == Head(cachedSrcs)
             next == IF \E k \in 1..Len(srcs) : srcs[k] = u THEN srcs ELSE Append(srcs, u)
         IN  mergeSources(next, Tail(cachedSrcs))

\* update-apps.mjs normalizeSummary-like block of mergePrivacy: a summary built
\* from the emptiness of the tracking and linked buckets
summaryOf(labels) ==
    [present |-> TRUE,
     track |-> labels.buckets[TRACK] # {},
     linked |-> labels.buckets[LINKED] # {}]

(***************************************************************************)
(* scripts/update-apps.mjs mergePrivacy, after the cache read and scrape:  *)
(* copy the cached fields, look the developer site up when it is missing,  *)
(* merge the sources, fill the summary in when absent.                     *)
(***************************************************************************)
needsLookup(merged, cached) ==
    (IF cached.developer_website_url # NoUrl THEN cached.developer_website_url
     ELSE merged.developer_website_url) = NoUrl

mergeCached(merged, cached, lu) ==
    LET labels == IF cached.privacy_labels.present THEN cached.privacy_labels
                  ELSE merged.privacy_labels
        site0 == IF cached.developer_website_url # NoUrl THEN cached.developer_website_url
                 ELSE merged.developer_website_url
        site == IF site0 = NoUrl THEN lu ELSE site0
        summary == IF ~merged.tracking_summary.present /\ labels.present
                   THEN summaryOf(labels) ELSE merged.tracking_summary
    IN  [merged EXCEPT !.privacy_labels = labels,
                       !.developer_website_url = site,
                       !.sources = mergeSources(@, <<STORE_PAGE>>),
                       !.tracking_summary = summary]

(***************************************************************************)
(* part_002 (an earlier scripts/update-apps.mjs): mergePrivacy starts from *)
(* the entry the previous apps.json holds under the same key.              *)
(***************************************************************************)
\* app_id || (name + "|" + developer).toLowerCase().replace(/\s+/g," ").trim()
prevKey(a) ==
    IF a.app_id # 0 THEN <<a.app_id>>
    ELSE trim(collapseWs(toLowerCase(a.name \o <<"|">> \o a.developer)))

\* previousByKey.get(key) || {}: the last previous entry with the key
prevEntry(prevApps, a) ==
    LET hits == {k \in 1..Len(prevApps) : prevKey(prevApps[k]) = prevKey(a)}
    IN  IF hits = {} THEN [found |-> FALSE, entry |-> a]
        ELSE [found |-> TRUE,
              entry |-> prevApps[CHOOSE k \in hits : \A j \in hits : j <= k]]

\* { ...prev, ...app }: the fields of app, and those only prev has
spreadPrev(prev, a) ==
    IF ~prev.found THEN a
    ELSE [a EXCEPT
            !.privacy_labels = IF a.privacy_labels.present THEN @ ELSE prev.entry.privacy_labels,
            !.tracking_summary = IF a.tracking_summary.present THEN @ ELSE prev.entry.tracking_summary,
            !.developer_website_url = IF a.developer_website_url # NoUrl THEN @
                                      ELSE prev.entry.developer_website_url]

\* what one call of an enrichment step did: the entry it returned, the cache
\* file it left, and the calls it made
StepResult(entry, file, didLoad, didScrape, didFail, didWrite, didLook) ==
    [entry |-> entry, file |-> file, loaded |-> didLoad, scraped |-> didScrape,
     failed |-> didFail, written |-> didWrite, looked |-> didLook]

\* the mutant of mergePrivacy: a failed scrape falls through to the merge
mergePrivacyFallThrough(a, file, sc, wr, lu) ==
    LET cached == IF file.kind = "record" THEN file.rec ELSE NoRecord
    IN  IF a.app_id = 0
        THEN StepResult(a, file, FALSE, FALSE, FALSE, FALSE, FALSE)
        ELSE IF cached.present
        THEN StepResult(mergeCached(a, cached, lu), file,
                        TRUE, FALSE, FALSE, FALSE, needsLookup(a, cached))
        ELSE IF ~sc.ok
        THEN StepResult(mergeCached(a, NoRecord, lu), file, TRUE, TRUE, TRUE, FALSE, TRUE)
        ELSE IF wr # "ok"
        THEN StepResult(a, fileAfterWrite(file, sc.rec, wr),
                        TRUE, TRUE, FALSE, TRUE, FALSE)
        ELSE StepResult(mergeCached(a, sc.rec, lu), File(sc.rec),
                        TRUE, TRUE, FALSE, TRUE, needsLookup(a, sc.rec))

\* scripts/update-apps.mjs mergePrivacy(app): file is the cache file of the id,
\* sc / wr / lu are what the scrape, the cache write and the lookup would give
mergePrivacy(a, file, sc, wr, lu) ==
    LET cached == IF file.kind = "record" THEN file.rec ELSE NoRecord
    IN  IF a.app_id = 0
        THEN StepResult(a, file, FALSE, FALSE, FALSE, FALSE, FALSE)
        ELSE IF cached.present
        THEN StepResult(mergeCached(a, cached, lu), file,
                        TRUE, FALSE, FALSE, FALSE, needsLookup(a, cached))
        ELSE IF ~sc.ok
        THEN StepResult(a, file, TRUE, TRUE, TRUE, FALSE, FALSE)
        ELSE IF wr # "ok"
        THEN StepResult(a, fileAfterWrite(file, sc.rec, wr),
                        TRUE, TRUE, FALSE, TRUE, FALSE)
        ELSE StepResult(mergeCached(a, sc.rec, lu), File(sc.rec),
                        TRUE, TRUE, FALSE, TRUE, needsLookup(a, sc.rec))

\* part_002 mergePrivacy(app, previousByKey)
mergePrivacyPrev(a, prevApps, file, sc, wr, lu) ==
    LET merged == spreadPrev(prevEntry(prevApps, a), a)
        cached == IF file.kind = "record" THEN file.rec ELSE NoRecord
    IN  IF a.app_id = 0
        THEN StepResult(merged, file, FALSE, FALSE, FALSE, FALSE, FALSE)
        ELSE IF cached.present
        THEN StepResult(mergeCached(merged, cached, lu), file,
                        TRUE, FALSE, FALSE, FALSE, needsLookup(merged, cached))
        ELSE IF ~sc.ok
        THEN StepResult(merged, file, TRUE, TRUE, TRUE, FALSE, FALSE)
        ELSE IF wr # "ok"
        THEN StepResult(merged, fileAfterWrite(file, sc.rec, wr),
                        TRUE, TRUE, FALSE, TRUE, FALSE)
        ELSE StepResult(mergeCached(merged, sc.rec, lu), File(sc.rec),
                        TRUE, TRUE, FALSE, TRUE, needsLookup(merged, sc.rec))

(***************************************************************************)
(* scrape-privacy.mjs (second half): enrichApps.                           *)
(***************************************************************************)
\* pLimit(3)
CONCURRENCY == 3

\* normalizeSummary(labels)
normalizeSummary(labels) ==
    [present |-> TRUE,
     track |-> labels.buckets[TRACK] # {},
     linked |-> labels.buckets[LINKED] # {}]

\* the mutant of isFresh: the age test is inverted
isFreshInverted(priv, t) == priv.present /\ (t - priv.as_of >= TTL_DAYS)

\* const fresh = priv && (Date.now()-Date.parse(priv.as_of) < 14*24*3600*1000)
isFresh(priv, t) == priv.present /\ (t - priv.as_of < TTL_DAYS)

\* the mutant of privAfterScrape: the catch block forgets the cached record
privAfterScrapeForget(priv, sc) == IF sc.ok THEN sc.rec ELSE NoRecord

\* priv after try { priv = await scrapePrivacyForApp(id) } catch { }
privAfterScrape(priv, sc) == IF sc.ok THEN sc.rec ELSE priv

\* const merged = { ...app }; if (priv?.privacy_labels) { ... }; return merged
enrichMerge(a, priv) ==
    IF priv.present /\ priv.privacy_labels.present
    THEN [a EXCEPT !.privacy_labels = priv.privacy_labels,
                   !.tracking_summary = normalizeSummary(priv.privacy_labels),
                   !.sources = IF @ = <<>> THEN <<STORE_PAGE>> ELSE @]
    ELSE a

\* a task: where it is suspended and its local `priv`
QueuedTask == [st |-> "queued", priv |-> NoRecord]
DoneTask == [st |-> "done", priv |-> NoRecord]
Running == {i \in Positions : tasks[i].st \in {"load", "scrape", "save", "sleep"}}

(***************************************************************************)
(* script.js: normaliseName, appKey, mergeAppsByName.                      *)
(***************************************************************************)
\* (n||'').toLowerCase().replace(/\s+/g,' ').trim()
normaliseName(n) == trim(collapseWs(toLowerCase(n)))

DIGITS == <<"0", "1", "2", "3", "4", "5", "6", "7", "8", "9">>

RECURSIVE decimal(_)
\* String(n) of a positive integer
decimal(n) ==
    IF n < 10 THEN <<DIGITS[n + 1]>>
    ELSE decimal(n \div 10) \o <<DIGITS[(n % 10) + 1]>>

\* `id:${a.app_id}`: an entry without app_id gives "id:undefined"
idKey(a) ==
    <<"i", "d", ":">> \o
    (IF a.app_id = 0 THEN <<"u","n","d","e","f","i","n","e","d">> ELSE decimal(a.app_id))

\* `${normaliseName(a.name)}|${normaliseName(a.developer)}`
appKey(a) == normaliseName(a.name) \o <<"|">> \o normaliseName(a.developer)

\* byKey.set(k, v)
mapSet(m, k, v) == IF k \in DOMAIN m THEN [m EXCEPT ![k] = v] ELSE m @@ (k :> v)

\* the body of localApps.forEach: the full key, the name-only key when it is
\* free, the id key when the record has an id
indexOne(m, a) ==
    LET m1 == mapSet(m, appKey(a), a)
        kName == normaliseName(a.name)
        m2 == IF kName \in DOMAIN m1 THEN m1 ELSE mapSet(m1, kName, a)
    IN  IF a.app_id # 0 THEN mapSet(m2, idKey(a), a) ELSE m2

RECURSIVE indexFrom(_, _)
\* byKey after localApps.forEach
indexFrom(m, apps) ==
    IF apps = <<>> THEN m ELSE indexFrom(indexOne(m, Head(apps)), Tail(apps))

byKeyOf(apps) == indexFrom(<<>>, apps)

NoHit == [found |-> FALSE, rec |-> ChartApp(1)]
Hit(a) == [found |-> TRUE, rec |-> a]

\* byKey.get(`id:${r.app_id}`) || byKey.get(kFull) || byKey.get(normaliseName(r.name))
lookupHit(m, r) ==
    IF idKey(r) \in DOMAIN m THEN Hit(m[idKey(r)])
    ELSE IF appKey(r) \in DOMAIN m THEN Hit(m[appKey(r)])
    ELSE IF normaliseName(r.name) \in DOMAIN m THEN Hit(m[normaliseName(r.name)])
    ELSE NoHit

\* hit ? { rank, name, developer of r; the privacy fields of hit; ... } : r
mergeOne(m, r) ==
    LET h == lookupHit(m, r)
    IN  IF h.found
        THEN [rank |-> r.rank,
              name |-> r.name,
              developer |-> r.developer,
              sources |-> IF r.sources # <<>> THEN r.sources ELSE h.rec.sources,
              tracking_summary |-> h.rec.tracking_summary,
              privacy_labels |-> h.rec.privacy_labels,
              developer_website_url |-> h.rec.developer_website_url,
              app_id |-> IF h.rec.app_id # 0 THEN h.rec.app_id ELSE r.app_id]
        ELSE r

\* mergeAppsByName(rssApps, localApps)
mergeAppsByName(rssApps, locals) ==
    LET m == byKeyOf(locals)
    IN  [i \in 1..Len(rssApps) |-> mergeOne(m, rssApps[i])]

(***************************************************************************)
(* script.js loadBoards: data/apps.json is loaded, the three charts are    *)
(* fetched one after the other, then each board is merged.                 *)
(***************************************************************************)
BOARD_KEYS == <<"free", "paid", "games">>

\* names as the feed and apps.json spell them
NAME_ACME == <<"A","c","m","e">>
NAME_ACME_LOUD == <<" ","A","C","M","E"," "," ">>
NAME_BETA == <<"B","e","t","a">>
NAME_PIPED == <<"A","c","m","e","|","D","e","v"," ","L","t","d">>
DEV_ONE == <<"D","e","v"," ","L","t","d">>
DEV_TWO == <<"O","t","h","e","r"," "," ","I","n","c">>
LOCAL_ID == 111

\* an entry of data/apps.json: the updater wrote it with labels and a summary
LocalApp(name, dev, id) ==
    LET labels == IF dev = DEV_ONE THEN LABELS_A ELSE LABELS_B
    IN  [rank |-> 1, name |-> name, developer |-> dev, app_id |-> id,
         sources |-> <<STORE_PAGE>>,
         privacy_labels |-> labels,
         tracking_summary |-> summaryOf(labels),
         developer_website_url |-> IF name = NAME_BETA THEN SELLER_URL ELSE SITE_URL]

LocalPool ==
    {LocalApp(n, d, id) : n \in {NAME_ACME, NAME_ACME_LOUD, NAME_BETA, NAME_PIPED},
                          d \in {DEV_ONE, DEV_TWO}, id \in {0, LOCAL_ID}}

RECURSIVE SeqsUpTo(_, _)
\* the sequences over S of length at most n
SeqsUpTo(S, n) ==
    IF n = 0 THEN {<<>>}
    ELSE LET shorter == SeqsUpTo(S, n - 1)
         IN  shorter \cup {Append(q, x) : q \in shorter, x \in S}

\* fetchAppleChart: an entry of the feed has rank, name, developer, no app_id
FeedApp(rank, name, dev) ==
    [rank |-> rank, name |-> name, developer |-> dev, app_id |-> 0,
     sources |-> <<RSS_LINK>>,
     privacy_labels |-> NoLabels,
     tracking_summary |-> NoSummary,
     developer_website_url |-> NoUrl]

\* the charts a feed may return
Charts ==
    { <<FeedApp(1, NAME_ACME_LOUD, DEV_ONE)>>,
      <<FeedApp(1, NAME_BETA, DEV_TWO), FeedApp(2, NAME_ACME, DEV_TWO)>> }

\* safeFetch: the chart, or { as_of: '', apps: [] } when the fetch throws
FetchOutcomes == Charts \cup {<<>>}

\* useLocal(rss): the chart when it has entries, else the local entries
useLocal(rss, locals) == IF rss # <<>> THEN rss ELSE locals

MergeIdle ==
    /\ localApps = <<>>
    /\ fetched = [k \in 1..Len(BOARD_KEYS) |-> <<>>]
    /\ boards = [k \in 1..Len(BOARD_KEYS) |-> <<>>]
    /\ mpc = "local"

(***************************************************************************)
(* The charts of a run and the deduplication each updater applies to the   *)
(* concatenation free, paid, games.                                        *)
(***************************************************************************)
NAME_ACME_UPPER == <<"A","C","M","E">>
NAME_ACME_PRO == <<"A","c","m","e"," ","P","r","o">>
NAME_GAMMA == <<"G","a","m","m","a">>
NAME_DELTA == <<"D","e","l","t","a">>
ID_ACME == 111
ID_BETA == 222
ID_DELTA == 333
ID_GAMMA == 444

\* parseRssApps / parseAppFromRssEntry: the entry at index rank-1 of a feed;
\* id 0 stands for a link without id(\d+)
RunEntry(rank, name, id) ==
    [ChartApp(1) EXCEPT !.rank = rank, !.name = name, !.app_id = id]

\* what the free, the paid and the games feed may hold
FreeFeeds ==
    { <<RunEntry(1, NAME_ACME, ID_ACME), RunEntry(2, NAME_BETA, ID_BETA)>>,
      <<RunEntry(1, NAME_ACME, 0), RunEntry(2, NAME_BETA, ID_BETA)>> }
PaidFeeds ==
    { <<>>,
      <<RunEntry(1, NAME_DELTA, ID_DELTA), RunEntry(2, NAME_GAMMA, ID_GAMMA)>> }
GamesFeeds ==
    { <<RunEntry(1, NAME_GAMMA, ID_GAMMA), RunEntry(2, NAME_ACME, ID_ACME)>>,
      <<RunEntry(1, NAME_ACME_UPPER, ID_ACME)>>,
      <<RunEntry(1, NAME_ACME_PRO, ID_ACME)>>,
      <<RunEntry(1, NAME_ACME, 0)>> }

RunIds == {ID_ACME, ID_BETA, ID_DELTA, ID_GAMMA}

\* [...charts.free, ...charts.paid, ...charts.games]
allApps(f) == f[1] \o f[2] \o f[3]

\* scrape-privacy.mjs run: `${a.name.toLowerCase()}|${a.developer.toLowerCase()}`
runKey(a) == toLowerCase(a.name) \o <<"|">> \o toLowerCase(a.developer)

\* update-apps.mjs keyFor: `id:${a.app_id}` or `nk:${name}|${developer}` in lower case
keyFor(a) ==
    IF a.app_id # 0 THEN idKey(a) ELSE <<"n", "k", ":">> \o runKey(a)

RECURSIVE pick(_, _, _)
\* the entries of list at the positions of keep, in list order
pick(list, keep, i) ==
    IF i > Len(list) THEN <<>>
    ELSE (IF i \in keep THEN <<list[i]>> ELSE <<>>) \o pick(list, keep, i + 1)

\* keys is the sequence of the keys of a list, entry by entry:
\* the positions whose key occurs at no earlier position
firstOf(keys) ==
    {i \in 1..Len(keys) : \A j \in 1..(i - 1) : keys[j] # keys[i]}

\* the last position that has the key of position i
lastOf(keys, i) ==
    CHOOSE j \in 1..Len(keys) :
        /\ keys[j] = keys[i]
        /\ \A m \in 1..Len(keys) : keys[m] = keys[i] => m <= j

\* update-apps.mjs uniqueByAppIdOrKey: if (!map.has(k)) map.set(k, a)
uniqueByAppIdOrKey(apps) ==
    pick(apps, firstOf([n \in 1..Len(apps) |-> keyFor(apps[n])]), 1)

\* scrape-privacy.mjs run: allApps.forEach(a => map.set(key(a), a)); [...map.values()]
\* a Map keeps the place of the first set and the value of the last
mapValues(apps) ==
    LET keys == [n \in 1..Len(apps) |-> runKey(apps[n])]
        first == pick([i \in 1..Len(apps) |-> i], firstOf(keys), 1)
    IN  [n \in 1..Len(first) |-> apps[lastOf(keys, first[n])]]

\* part_002 main: combined.sort((a,b) => (b.app_id?1:0) - (a.app_id?1:0)), a
\* stable sort: the entries with an id, then those without
idsFirst(apps) ==
    pick(apps, {i \in 1..Len(apps) : apps[i].app_id # 0}, 1)
    \o pick(apps, {i \in 1..Len(apps) : apps[i].app_id = 0}, 1)

\* part_002 uniqBy(arr, keyFn): if (k && !seen.has(k)) out.push(x); keys is
\* the sequence of keyFn(x) over arr
uniqBy(arr, keys) ==
    pick(arr, {i \in firstOf(keys) : keys[i] # <<>>}, 1)

SCRIPTS == {"scrape-privacy", "update-apps", "part_002"}

\* the list each script hands to its enrichment
dedupe(sc, apps) ==
    IF sc = "scrape-privacy" THEN mapValues(apps)
    ELSE IF sc = "update-apps" THEN uniqueByAppIdOrKey(apps)
    ELSE LET arr == idsFirst(apps)
         IN  uniqBy(arr, [n \in 1..Len(arr) |-> prevKey(arr[n])])

(***************************************************************************)
(* The states in which the step-by-step run and the token clean-up have    *)
(* not started.                                                            *)
(***************************************************************************)
RunIdle ==
    /\ script = "scrape-privacy"
    /\ feeds = <<<<>>, <<>>, <<>>>>
    /\ rpc = "start"
    /\ combined = <<>>
    /\ rtasks = <<>>
    /\ results = <<>>
    /\ browsers = {}
    /\ rcache = <<>>
    /\ final = <<>>

NormIdle ==
    /\ extractor = "norm"
    /\ harvested = [h \in HEADS |-> <<>>]
    /\ composed = [h \in HEADS |-> <<>>]
    /\ npc = "harvest"

\* no page is visited
NoSite == [appear |-> "never", chips |-> [h \in HEADS |-> <<>>], rows |-> {}]
NothingReturned ==
    [kind |-> "none", buckets |-> [h \in HEADS |-> <<>>], details |-> <<>>]

PageIdle ==
    /\ pex = "norm"
    /\ webpage = NoSite
    /\ ppc = "goto"
    /\ reloads = 0
    /\ returned = NothingReturned

\* the result list: the query it was rendered for, and whether the live
\* results were merged into it; an empty list is rendered for no query
NoResults == [q |-> <<>>, live |-> FALSE]

SearchIdle ==
    /\ query = <<>>
    /\ resultsFor = NoResults
    /\ debounce = <<>>
    /\ requests = <<>>
    /\ searchAbort = 0
    /\ typed = 0

(***************************************************************************)
(* SpecEnrich: pipeline runs of one updater script over a chart that does  *)
(* not change, with a cache and a previous apps.json that persist between  *)
(* the runs.                                                               *)
(***************************************************************************)
\* an entry without labels and details
EmptyApp(withLabels) ==
    [privacy_labels |-> [present |-> withLabels, buckets |-> [h \in HEADS |-> {}]],
     privacy_details |-> [c \in Cats |-> NoDetail]]

Variants == {"enrichApps", "mergePrivacy", "mergePrivacyPrev"}

\* an apps.json written by an earlier run whose cache files are gone
PreviousOutput ==
    [i \in Positions |->
        [ChartApp(i) EXCEPT !.privacy_labels = LABELS_B,
                            !.tracking_summary = summaryOf(LABELS_B),
                            !.developer_website_url = SITE_URL]]

NoOutput == <<>>

EnrichIdle ==
    /\ now = NOW0
    /\ runs = 0
    /\ pc = "idle"
    /\ out = <<>>
    /\ tasks = [i \in Positions |-> QueuedTask]
    /\ cache0 = cache
    /\ scraped = {}
    /\ looked = {}
    /\ written = {}
    /\ loaded = {}
    /\ failed = {}

ScoreIdle ==
    /\ app = EmptyApp(FALSE)
    /\ risk = computePrivacyScore(app)

EnrichInit ==
    /\ MergeIdle
    /\ RunIdle
    /\ NormIdle
    /\ PageIdle
    /\ SearchIdle
    /\ variant \in Variants
    /\ cache \in [Ids -> InitialFiles]
    /\ outFile \in IF variant = "mergePrivacyPrev" THEN {NoOutput, PreviousOutput}
                                                  ELSE {NoOutput}
    /\ EnrichIdle
    /\ ScoreIdle

\* the file of an id; an entry without id has none
fileOf(c, id) == IF id \in DOMAIN c THEN c[id] ELSE NoFile
putFile(c, id, file) == IF id \in DOMAIN c THEN [c EXCEPT ![id] = file] ELSE c

\* main() / run() up to the enrichment: the charts are fetched, the cache
\* directory exists, nothing is enriched yet
StartRun(gap) ==
    /\ pc = "idle"
    /\ runs < MaxRuns
    /\ now' = now + gap
    /\ pc' = "run"
    /\ out' = <<>>
    /\ tasks' = [i \in Positions |-> QueuedTask]
    /\ cache0' = cache
    /\ scraped' = {}
    /\ looked' = {}
    /\ written' = {}
    /\ loaded' = {}
    /\ failed' = {}
    /\ UNCHANGED <<variant, cache, outFile, runs, scoreVars, mergeVars, runVars, normVars, pageVars, searchVars>>

\* the position the sequential loops of main() handle next
NextPosition == CHOOSE i \in Positions \ DOMAIN out : \A j \in Positions \ DOMAIN out : i <= j

\* the bookkeeping of one finished call
Record1(i, r) ==
    LET id == ChartApp(i).app_id
    IN  /\ out' = out @@ (i :> r.entry)
        /\ cache' = putFile(cache, id, r.file)
        /\ loaded' = IF r.loaded THEN loaded \cup {id} ELSE loaded
        /\ scraped' = IF r.scraped THEN scraped \cup {id} ELSE scraped
        /\ failed' = IF r.failed THEN failed \cup {id} ELSE failed
        /\ written' = IF r.written THEN written \cup {id} ELSE written
        /\ looked' = IF r.looked THEN looked \cup {id} ELSE looked

\* scripts/update-apps.mjs main(), one iteration of `for (const app of combined)`
MainStep ==
    /\ variant = "mergePrivacy"
    /\ pc = "run"
    /\ DOMAIN out # Positions
    /\ LET i == NextPosition
           a == ChartApp(i)
       IN  IF a.app_id = 0
           THEN Record1(i, StepResult(a, NoFile, FALSE, FALSE, FALSE, FALSE, FALSE))
           ELSE \E sc \in ScrapeOutcomes(now), wr \in WriteOutcomes, lu \in LookupOutcomes :
                    Record1(i, mergePrivacy(a, fileOf(cache, a.app_id), sc, wr, lu))
    /\ UNCHANGED <<variant, now, outFile, runs, pc, tasks, cache0, scoreVars, mergeVars, runVars, normVars, pageVars, searchVars>>

\* part_002 main(), one call of mergePrivacy(app, prevByKey)
MainPrevStep ==
    /\ variant = "mergePrivacyPrev"
    /\ pc = "run"
    /\ DOMAIN out # Positions
    /\ LET i == NextPosition
           a == ChartApp(i)
       IN  \E sc \in ScrapeOutcomes(now), wr \in WriteOutcomes, lu \in LookupOutcomes :
               Record1(i, mergePrivacyPrev(a, outFile, fileOf(cache, a.app_id), sc, wr, lu))
    /\ UNCHANGED <<variant, now, outFile, runs, pc, tasks, cache0, scoreVars, mergeVars, runVars, normVars, pageVars, searchVars>>

(***************************************************************************)
(* enrichApps: each entry is a task of pLimit(3); a task runs from one     *)
(* await to the next in one step.                                          *)
(***************************************************************************)
\* the mutant of TaskStart: the task of an entry without id reads the cache too
TaskStartNoGuard(i) ==
    /\ variant = "enrichApps"
    /\ pc = "run"
    /\ tasks[i].st = "queued"
    /\ \A j \in Positions : j < i => tasks[j].st # "queued"
    /\ Cardinality(Running) < CONCURRENCY
    /\ tasks' = [tasks EXCEPT ![i].st = "load"]
    /\ UNCHANGED <<variant, now, cache, outFile, runs, pc, out, cache0,
                   scraped, looked, written, loaded, failed, scoreVars, mergeVars, runVars, normVars, pageVars, searchVars>>

\* limit(async () => { if (!app.app_id) return app; ... await loadCache(id)
TaskStart(i) ==
    /\ variant = "enrichApps"
    /\ pc = "run"
    /\ tasks[i].st = "queued"
    /\ \A j \in Positions : j < i => tasks[j].st # "queued"
    /\ Cardinality(Running) < CONCURRENCY
    /\ IF ChartApp(i).app_id = 0
       THEN /\ tasks' = [tasks EXCEPT ![i] = DoneTask]
            /\ out' = out @@ (i :> ChartApp(i))
       ELSE /\ tasks' = [tasks EXCEPT ![i].st = "load"]
            /\ out' = out
    /\ UNCHANGED <<variant, now, cache, outFile, runs, pc, cache0,
                   scraped, looked, written, loaded, failed, scoreVars, mergeVars, runVars, normVars, pageVars, searchVars>>

\* loadCache resolved: fresh -> merge and return; else scrapePrivacyForApp(id)
TaskLoaded(i) ==
    /\ variant = "enrichApps"
    /\ pc = "run"
    /\ tasks[i].st = "load"
    /\ LET id == ChartApp(i).app_id
           priv == readJson([k \in {id} |-> fileOf(cache, id)], id)
       IN  /\ loaded' = loaded \cup {id}
           /\ IF isFresh(priv, now)
              THEN /\ tasks' = [tasks EXCEPT ![i] = DoneTask]
                   /\ out' = out @@ (i :> enrichMerge(ChartApp(i), priv))
                   /\ scraped' = scraped
              ELSE /\ tasks' = [tasks EXCEPT ![i] = [st |-> "scrape", priv |-> priv]]
                   /\ out' = out
                   /\ scraped' = scraped \cup {id}
    /\ UNCHANGED <<variant, now, cache, outFile, runs, pc, cache0,
                   looked, written, failed, scoreVars, mergeVars, runVars, normVars, pageVars, searchVars>>

\* scrapePrivacyForApp settled: a record -> saveCache(id, priv); a throw ->
\* the catch block, then merge and return
TaskScraped(i, sc) ==
    /\ variant = "enrichApps"
    /\ pc = "run"
    /\ tasks[i].st = "scrape"
    /\ LET id == ChartApp(i).app_id
           priv == privAfterScrape(tasks[i].priv, sc)
       IN  IF sc.ok
           THEN /\ tasks' = [tasks EXCEPT ![i] = [st |-> "save", priv |-> priv]]
                /\ written' = written \cup {id}
                /\ out' = out
                /\ failed' = failed
           ELSE /\ tasks' = [tasks EXCEPT ![i] = DoneTask]
                /\ out' = out @@ (i :> enrichMerge(ChartApp(i), priv))
                /\ failed' = failed \cup {id}
                /\ written' = written
    /\ UNCHANGED <<variant, now, cache, outFile, runs, pc, cache0,
                   scraped, looked, loaded, scoreVars, mergeVars, runVars, normVars, pageVars, searchVars>>

\* saveCache settled: written -> the 500..900 ms pause; a throw -> the catch
\* block, then merge and return
TaskSaved(i, wr) ==
    /\ variant = "enrichApps"
    /\ pc = "run"
    /\ tasks[i].st = "save"
    /\ LET id == ChartApp(i).app_id
       IN  /\ cache' = putFile(cache, id, fileAfterWrite(fileOf(cache, id), tasks[i].priv, wr))
           /\ IF wr = "ok"
              THEN /\ tasks' = [tasks EXCEPT ![i].st = "sleep"]
                   /\ out' = out
              ELSE /\ tasks' = [tasks EXCEPT ![i] = DoneTask]
                   /\ out' = out @@ (i :> enrichMerge(ChartApp(i), tasks[i].priv))
    /\ UNCHANGED <<variant, now, outFile, runs, pc, cache0,
                   scraped, looked, written, loaded, failed, scoreVars, mergeVars, runVars, normVars, pageVars, searchVars>>

\* the pause elapsed: merge and return
TaskSlept(i) ==
    /\ variant = "enrichApps"
    /\ pc = "run"
    /\ tasks[i].st = "sleep"
    /\ tasks' = [tasks EXCEPT ![i] = DoneTask]
    /\ out' = out @@ (i :> enrichMerge(ChartApp(i), tasks[i].priv))
    /\ UNCHANGED <<variant, now, cache, outFile, runs, pc, cache0,
                   scraped, looked, written, loaded, failed, scoreVars, mergeVars, runVars, normVars, pageVars, searchVars>>

\* every entry is enriched: the aggregate output is written
WriteOutput ==
    /\ pc = "run"
    /\ DOMAIN out = Positions
    /\ outFile' = [i \in Positions |-> out[i]]
    /\ pc' = "idle"
    /\ runs' = runs + 1
    /\ UNCHANGED <<variant, now, cache, out, tasks, cache0,
                   scraped, looked, written, loaded, failed, scoreVars, mergeVars, runVars, normVars, pageVars, searchVars>>

EnrichNext ==
    \/ \E gap \in RunGaps : StartRun(gap)
    \/ MainStep
    \/ MainPrevStep
    \/ \E i \in Positions : TaskStart(i)
    \/ \E i \in Positions : TaskLoaded(i)
    \/ \E i \in Positions, sc \in ScrapeOutcomes(now) : TaskScraped(i, sc)
    \/ \E i \in Positions, wr \in WriteOutcomes : TaskSaved(i, wr)
    \/ \E i \in Positions : TaskSlept(i)
    \/ WriteOutput

SpecEnrich == EnrichInit /\ [][EnrichNext]_vars

(***************************************************************************)
(* SpecScore: a record that starts empty and grows by one category, one    *)
(* purpose or one tracked flag at a time; renderRiskMeter recomputes the   *)
(* score of the record after every change.                                 *)
(***************************************************************************)
\* the pipeline at rest: SpecScore does not run it
PipelineIdle ==
    /\ variant = "enrichApps"
    /\ cache = [id \in Ids |-> NoFile]
    /\ outFile = NoOutput
    /\ EnrichIdle

ScoreInit ==
    /\ \E withLabels \in BOOLEAN : app = EmptyApp(withLabels)
    /\ risk = computePrivacyScore(app)
    /\ PipelineIdle
    /\ MergeIdle
    /\ RunIdle
    /\ NormIdle
    /\ PageIdle
    /\ SearchIdle

\* a category is added to one of the three buckets
AddCategory(head, cat) ==
    /\ cat \notin sectionItems(app, head)
    /\ app' = [app EXCEPT !.privacy_labels =
                 [present |-> TRUE,
                  buckets |-> [app.privacy_labels.buckets EXCEPT ![head] = @ \cup {cat}]]]
    /\ risk' = computePrivacyScore(app')
    /\ UNCHANGED <<enrichVars, mergeVars, runVars, normVars, pageVars, searchVars>>

\* a purpose is added to the details of a category
AddPurpose(cat, p) ==
    /\ p \notin app.privacy_details[cat].purposes
    /\ app' = [app EXCEPT !.privacy_details[cat] =
                 [present |-> TRUE, purposes |-> @.purposes \cup {p}, tracked |-> @.tracked]]
    /\ risk' = computePrivacyScore(app')
    /\ UNCHANGED <<enrichVars, mergeVars, runVars, normVars, pageVars, searchVars>>

\* the details of a category are flagged as tracked
MarkTracked(cat) ==
    /\ ~app.privacy_details[cat].tracked
    /\ app' = [app EXCEPT !.privacy_details[cat] =
                 [present |-> TRUE, purposes |-> @.purposes, tracked |-> TRUE]]
    /\ risk' = computePrivacyScore(app')
    /\ UNCHANGED <<enrichVars, mergeVars, runVars, normVars, pageVars, searchVars>>

ScoreNext ==
    \/ \E head \in HEADS, cat \in Cats : AddCategory(head, cat)
    \/ \E cat \in Cats, p \in Purposes : AddPurpose(cat, p)
    \/ \E cat \in Cats : MarkTracked(cat)

SpecScore == ScoreInit /\ [][ScoreNext]_vars

AllBucketsEmpty == \A h \in HEADS : sectionItems(app, h) = {}

\* C1: computePrivacyScore returns score 0 and band Low for every record whose
\* three buckets are all empty and for every entry without a privacy_labels field.
C1_EmptyRecordScoresZero ==
    AllBucketsEmpty => (risk.score = 0 /\ risk.band = "Low")

\* C2: for every record the score is an integer in 0..100, and the band is High
\* exactly when score >= 66, Medium exactly when 33 <= score <= 65, Low exactly
\* when score <= 32.
C2_ScoreBoundedBandConsistent ==
    /\ risk = computePrivacyScore(app)
    /\ risk.score \in 0..100
    /\ (risk.band = "High") <=> (risk.score >= 66)
    /\ (risk.band = "Medium") <=> (risk.score >= 33 /\ risk.score <= 65)
    /\ (risk.band = "Low") <=> (risk.score <= 32)

\* a record whose score sits exactly on the High threshold
C2_Witness == risk.score = 66 /\ risk.band = "High"

\* C3: adding a category to any bucket, or a purpose to the details of any
\* category, never decreases the score.
C3_ScoreMonotonic ==
    [][ ( \/ \E head \in HEADS, cat \in Cats : AddCategory(head, cat)
          \/ \E cat \in Cats, p \in Purposes : AddPurpose(cat, p) )
        => risk'.score >= risk.score ]_vars

\* a record with a category in a bucket and a purpose on it, scored above empty
C3_Witness ==
    /\ \E cat \in Cats :
         /\ cat \in sectionItems(app, TRACK)
         /\ app.privacy_details[cat].purposes # {}
    /\ risk.score > computePrivacyScore(EmptyApp(TRUE)).score


(***************************************************************************)
(* Claims about the enrichment step (SpecEnrich).                          *)
(***************************************************************************)
\* the record the run found in the cache for an id, and whether its age is
\* below the TTL
FoundRecord(id) == readJson(cache0, id)
WithinTTL(rec) == rec.present /\ now - rec.as_of < TTL_DAYS
Stale(rec) == rec.present /\ now - rec.as_of >= TTL_DAYS
IdOf(i) == ChartApp(i).app_id
NoPrivacy == PrivacyFields(ChartApp(1))

\* C4: when a cached record exists for an id and now - asOf < TTL, the step
\* returns that record's privacy_labels, never invokes scrapePrivacyForApp and
\* never rewrites the cache file of that id.
C4_FreshHitNoExtraction ==
    \A i \in Positions :
        (IdOf(i) # 0 /\ WithinTTL(FoundRecord(IdOf(i)))) =>
            /\ IdOf(i) \notin scraped
            /\ IdOf(i) \notin written
            /\ cache[IdOf(i)] = cache0[IdOf(i)]
            /\ i \in DOMAIN out =>
                 out[i].privacy_labels = FoundRecord(IdOf(i)).privacy_labels

\* an entry was enriched from a cache file that was read and found fresh
C4_Witness ==
    \E i \in DOMAIN out :
        /\ IdOf(i) # 0
        /\ WithinTTL(FoundRecord(IdOf(i)))
        /\ IdOf(i) \in loaded
        /\ out[i].privacy_labels.present

\* C5: when a cached record exists for an id but its age is at least the TTL,
\* scrapePrivacyForApp is invoked for the id before the entry is merged.
C5_StaleTriggersReextraction ==
    \A i \in DOMAIN out :
        (IdOf(i) # 0 /\ Stale(FoundRecord(IdOf(i)))) => IdOf(i) \in scraped

\* C6: in a run after the first, an app whose cached record is within the TTL
\* causes neither a page extraction nor a lookup request, and its entry has the
\* enriched fields the previous run wrote.
C6_CacheHitNoNetwork ==
    (runs >= 1 /\ pc = "run") =>
        \A i \in DOMAIN out :
            (IdOf(i) # 0 /\ WithinTTL(FoundRecord(IdOf(i)))) =>
                /\ IdOf(i) \notin scraped
                /\ IdOf(i) \notin looked
                /\ PrivacyFields(out[i]) = PrivacyFields(outFile[i])

\* C7: if the re-extraction for an id with a stale cached record fails, the
\* cache file is left as it was, the step still returns an entry, and the
\* entry carries the stale record's privacy_labels.
C7_FailedRefreshKeepsStale ==
    \A i \in Positions :
        (IdOf(i) # 0 /\ Stale(FoundRecord(IdOf(i))) /\ IdOf(i) \in failed) =>
            /\ cache[IdOf(i)] = cache0[IdOf(i)]
            /\ i \in DOMAIN out
            /\ out[i].privacy_labels = FoundRecord(IdOf(i)).privacy_labels

\* a stale record was re-extracted and the scrape threw
C7_Witness ==
    \E i \in DOMAIN out :
        /\ IdOf(i) # 0
        /\ Stale(FoundRecord(IdOf(i)))
        /\ IdOf(i) \in failed
        /\ out[i].privacy_labels.present

\* the scrape of an id without cached record threw
FailedWithoutRecord(i) ==
    /\ IdOf(i) # 0
    /\ ~FoundRecord(IdOf(i)).present
    /\ IdOf(i) \in failed

PreviousFieldsById(id) ==
    LET hits == {k \in 1..Len(outFile) : outFile[k].app_id = id}
    IN  IF hits = {} THEN NoPrivacy
        ELSE PrivacyFields(outFile[CHOOSE k \in hits : \A j \in hits : j <= k])

NoCallsWithoutId == 0 \notin (loaded \cup written \cup scraped)

\* C9 (as stated): an entry without app_id is returned with exactly the fields
\* and values of the input entry, and no cache read, cache write or extraction
\* happens for it.
C9_NoIdPassedThroughUnchanged ==
    /\ NoCallsWithoutId
    /\ \A i \in DOMAIN out : IdOf(i) = 0 => out[i] = ChartApp(i)

\* the normalized name|developer key of an entry without id
FallbackKey(e) == trim(collapseWs(toLowerCase(e.name \o <<"|">> \o e.developer)))

\* the privacy fields the previous apps.json holds under the fallback key of an
\* entry without id
PreviousFieldsByKey(a) ==
    LET hits == {k \in 1..Len(outFile) :
                    outFile[k].app_id = 0 /\ FallbackKey(outFile[k]) = FallbackKey(a)}
    IN  IF hits = {} THEN NoPrivacy
        ELSE PrivacyFields(outFile[CHOOSE k \in hits : \A j \in hits : j <= k])

\* C9 (amended): no cache read, cache write or extraction happens for an entry
\* without app_id; enrichApps and update-apps.mjs return the input entry
\* unchanged, part_002's mergePrivacy returns it with the privacy fields of the
\* previous output's entry under the same normalized name|developer key.
C9_NoIdNoCacheAccess ==
    /\ NoCallsWithoutId
    /\ pc = "run" =>
         \A i \in DOMAIN out :
            IdOf(i) = 0 =>
                /\ [out[i] EXCEPT !.privacy_labels = NoLabels,
                                  !.tracking_summary = NoSummary,
                                  !.developer_website_url = NoUrl] = ChartApp(i)
                /\ PrivacyFields(out[i]) =
                     IF variant = "mergePrivacyPrev" THEN PreviousFieldsByKey(ChartApp(i))
                     ELSE NoPrivacy

\* entries without id were returned: unchanged by enrichApps, with the previous
\* output's labels by part_002
C9_Witness ==
    /\ pc = "run"
    /\ \E i \in DOMAIN out :
         /\ IdOf(i) = 0
         /\ \/ variant = "enrichApps" /\ out[i] = ChartApp(i) /\ runs = 1
            \/ variant = "mergePrivacyPrev" /\ out[i].privacy_labels.present

(***************************************************************************)
(* SpecMerge: loadBoards of script.js.                                     *)
(***************************************************************************)
MergeInit ==
    /\ MergeIdle
    /\ ScoreIdle
    /\ PipelineIdle
    /\ RunIdle
    /\ NormIdle
    /\ PageIdle
    /\ SearchIdle

\* try { local = await loadJSON('data/apps.json') } catch {}
LoadLocal(apps) ==
    /\ mpc = "local"
    /\ localApps' = apps
    /\ mpc' = "fetch1"
    /\ UNCHANGED <<fetched, boards, scoreVars, enrichVars, runVars, normVars, pageVars, searchVars>>

\* await safeFetch(...) for the free and the paid chart
FetchBoard(k, rss) ==
    /\ k < Len(BOARD_KEYS)
    /\ mpc = (IF k = 1 THEN "fetch1" ELSE "fetch2")
    /\ fetched' = [fetched EXCEPT ![k] = rss]
    /\ mpc' = (IF k = 1 THEN "fetch2" ELSE "fetch3")
    /\ UNCHANGED <<localApps, boards, scoreVars, enrichVars, runVars, normVars, pageVars, searchVars>>

\* await safeFetch(...) for the games chart, then the three merges
FetchLastAndMerge(rss) ==
    /\ mpc = "fetch3"
    /\ fetched' = [fetched EXCEPT ![Len(BOARD_KEYS)] = rss]
    /\ boards' = [k \in 1..Len(BOARD_KEYS) |->
                    mergeAppsByName(useLocal(fetched'[k], localApps), localApps)]
    /\ mpc' = "ready"
    /\ UNCHANGED <<localApps, scoreVars, enrichVars, runVars, normVars, pageVars, searchVars>>

MergeNext ==
    \/ \E apps \in SeqsUpTo(LocalPool, MaxLocal) : LoadLocal(apps)
    \/ \E k \in 1..Len(BOARD_KEYS), rss \in FetchOutcomes : FetchBoard(k, rss)
    \/ \E rss \in FetchOutcomes : FetchLastAndMerge(rss)

SpecMerge == MergeInit /\ [][MergeNext]_vars

(***************************************************************************)
(* Claims about mergeAppsByName (SpecMerge).                               *)
(***************************************************************************)
\* the three ways a local record can match a chart entry
SameId(a, r) == r.app_id # 0 /\ a.app_id = r.app_id
SameNameAndDeveloper(a, r) ==
    /\ normaliseName(a.name) = normaliseName(r.name)
    /\ normaliseName(a.developer) = normaliseName(r.developer)
SameName(a, r) == normaliseName(a.name) = normaliseName(r.name)

LocalSet == {localApps[j] : j \in 1..Len(localApps)}

\* the entry e is the chart entry r enriched with the fields of the record a
EnrichedWith(e, r, a) ==
    /\ e.rank = r.rank /\ e.name = r.name /\ e.developer = r.developer
    /\ PrivacyFields(e) = PrivacyFields(a)
    /\ e.app_id = (IF a.app_id # 0 THEN a.app_id ELSE r.app_id)

\* the record chosen for r is one that matches by id if any does, else one that
\* matches by name and developer if any does, else one that matches by name
\* if any does; so r is left as it is only if no record matches in any way
ResolvedByPriority(e, r) ==
    IF \E a \in LocalSet : SameId(a, r)
    THEN \E a \in LocalSet : SameId(a, r) /\ EnrichedWith(e, r, a)
    ELSE IF \E a \in LocalSet : SameNameAndDeveloper(a, r)
    THEN \E a \in LocalSet : SameNameAndDeveloper(a, r) /\ EnrichedWith(e, r, a)
    ELSE IF \E a \in LocalSet : SameName(a, r)
    THEN \E a \in LocalSet : SameName(a, r) /\ EnrichedWith(e, r, a)
    ELSE TRUE

\* C10: mergeAppsByName resolves the record of each chart entry in the order
\* numeric app_id, normalized name|developer, normalized name, and leaves an
\* entry unenriched only if none of the three matches.
C10_LookupPriority ==
    mpc = "ready" =>
        \A k \in 1..Len(BOARD_KEYS) :
            LET rss == useLocal(fetched[k], localApps)
            IN  /\ Len(boards[k]) = Len(rss)
                /\ \A i \in 1..Len(rss) : ResolvedByPriority(boards[k][i], rss[i])

\* no name or developer of data/apps.json holds the key delimiter
DelimiterFree ==
    \A a \in LocalSet : \A c \in {"|", ":"} :
        /\ \A n \in 1..Len(a.name) : a.name[n] # c
        /\ \A n \in 1..Len(a.developer) : a.developer[n] # c

\* the priority order holds when the local names are free of the delimiter
LookupPriorityWithoutDelimiter ==
    (mpc = "ready" /\ DelimiterFree) =>
        \A k \in 1..Len(BOARD_KEYS) :
            LET rss == useLocal(fetched[k], localApps)
            IN  \A i \in 1..Len(rss) : ResolvedByPriority(boards[k][i], rss[i])

\* an entry resolved through a record that matches it in none of the three ways
ResolvedThroughForeignKey ==
    /\ mpc = "ready"
    /\ \E k \in 1..Len(BOARD_KEYS) :
         LET rss == useLocal(fetched[k], localApps)
         IN  \E i \in 1..Len(rss) :
                /\ ~\E a \in LocalSet : SameId(a, rss[i]) \/ SameName(a, rss[i])
                /\ boards[k][i] # rss[i]


(***************************************************************************)
(* SpecRun: one run of an updater followed step by step: the three charts  *)
(* are fetched, combined and deduplicated, each entry is enriched by a     *)
(* call that is suspended at its awaits (the cache read, the launch of the *)
(* browser, the page steps, the close, the cache write, the pause), and    *)
(* the output is written.                                                  *)
(***************************************************************************)
\* the stages of scrapePrivacyForApp between the launch and the close
PAGE_STAGES == <<"goto", "wait", "evaluate">>

\* the cache directory the run finds: one fresh record
RunCache ==
    [id \in RunIds |-> IF id = ID_BETA THEN File(Record(NOW0 - 1, LABELS_A, NoUrl))
                                       ELSE NoFile]

\* what a successful scrape of this run returns
RunRecord == Record(NOW0, LABELS_B, SITE_URL)

RunTask(st, priv, thrown) == [st |-> st, priv |-> priv, thrown |-> thrown]

RunInit ==
    /\ script \in SCRIPTS
    /\ feeds = <<<<>>, <<>>, <<>>>>
    /\ rpc = "start"
    /\ combined = <<>>
    /\ rtasks = <<>>
    /\ results = <<>>
    /\ browsers = {}
    /\ rcache = RunCache
    /\ final = <<>>
    /\ ScoreIdle
    /\ PipelineIdle
    /\ MergeIdle
    /\ NormIdle
    /\ PageIdle
    /\ SearchIdle

\* await Promise.all([fetch free, fetch paid, fetch games]): if one of the
\* three rejects, run()/main() rejects and the process exits; else the lists
\* are combined and deduplicated
FetchCharts(f, failing) ==
    /\ rpc = "start"
    /\ feeds' = [k \in 1..3 |-> IF k \in failing THEN <<>> ELSE f[k]]
    /\ IF failing # {}
       THEN /\ rpc' = "aborted"
            /\ UNCHANGED <<combined, rtasks>>
       ELSE /\ combined' = dedupe(script, allApps(f))
            /\ rtasks' = [i \in 1..Len(combined') |-> RunTask("queued", NoRecord, FALSE)]
            /\ rpc' = IF script = "part_002" THEN "deduped" ELSE "enrich"
    /\ UNCHANGED <<script, results, browsers, rcache, final,
                   scoreVars, enrichVars, mergeVars, normVars, pageVars, searchVars>>

\* pLimit(3) in enrichApps; `for (const app of combined) ... await mergePrivacy(app)`
\* in main() has one call at a time
runLimit == IF script = "scrape-privacy" THEN CONCURRENCY ELSE 1

InProgress == {i \in 1..Len(rtasks) : rtasks[i].st \notin {"queued", "done"}}

\* the mutant of slotFree: a call starts whatever the number of active calls
slotFreeAlways(active) == TRUE

\* p-limit: a queued function is run when fewer than the limit are active
slotFree(active) == Cardinality(active) < runLimit

\* the mutant of settle: the results are collected in the order of completion
settleInCompletionOrder(res, i, e) == res @@ ((Cardinality(DOMAIN res) + 1) :> e)

\* Promise.all(tasks) / out.push(await ...): the result of call i is element i
settle(res, i, e) == res @@ (i :> e)

\* call i returns the entry e; the task keeps the mark of a throw inside the
\* try block of scrapePrivacyForApp
Return(i, e) ==
    /\ rtasks' = [rtasks EXCEPT ![i] = RunTask("done", NoRecord, rtasks[i].thrown)]
    /\ results' = settle(results, i, e)

\* the catch block of the caller of scrapePrivacyForApp: enrichApps goes on to
\* the merge with the priv it has, mergePrivacy returns app
Caught(i) ==
    Return(i, IF script = "scrape-privacy" THEN enrichMerge(combined[i], rtasks[i].priv)
              ELSE combined[i])

\* the merge of the record rec into entry i; mergePrivacy looks the developer
\* site up when the record has none
Merged(i, rec) ==
    IF script = "scrape-privacy" THEN Return(i, enrichMerge(combined[i], rec))
    ELSE \E lu \in LookupOutcomes :
            /\ needsLookup(combined[i], rec) \/ lu = NoUrl
            /\ Return(i, mergeCached(combined[i], rec, lu))

\* the call for entry i starts: an entry without id is returned as it is,
\* else the cache file is read
RunStart(i) ==
    /\ rpc = "enrich"
    /\ rtasks[i].st = "queued"
    /\ \A j \in 1..(i - 1) : rtasks[j].st # "queued"
    /\ slotFree(InProgress)
    /\ IF combined[i].app_id = 0
       THEN Return(i, combined[i])
       ELSE /\ rtasks' = [rtasks EXCEPT ![i].st = "load"]
            /\ UNCHANGED results
    /\ UNCHANGED <<script, feeds, rpc, combined, browsers, rcache, final,
                   scoreVars, enrichVars, mergeVars, normVars, pageVars, searchVars>>

\* loadCache / readJson settled: a usable record is merged, else
\* scrapePrivacyForApp is called and awaits puppeteer.launch
RunLoaded(i) ==
    /\ rpc = "enrich"
    /\ rtasks[i].st = "load"
    /\ LET priv == readJson(rcache, combined[i].app_id)
           usable == IF script = "scrape-privacy" THEN isFresh(priv, NOW0) ELSE priv.present
       IN  IF usable
           THEN Merged(i, priv)
           ELSE /\ rtasks' = [rtasks EXCEPT ![i] = RunTask("launch", priv, FALSE)]
                /\ UNCHANGED results
    /\ UNCHANGED <<script, feeds, rpc, combined, browsers, rcache, final,
                   scoreVars, enrichVars, mergeVars, normVars, pageVars, searchVars>>

\* puppeteer.launch settled: the browser is open and the try block begins, or
\* the launch threw
RunLaunched(i, ok) ==
    /\ rpc = "enrich"
    /\ rtasks[i].st = "launch"
    /\ IF ok
       THEN /\ browsers' = browsers \cup {i}
            /\ rtasks' = [rtasks EXCEPT ![i].st = PAGE_STAGES[1]]
            /\ UNCHANGED results
       ELSE /\ Caught(i)
            /\ UNCHANGED browsers
    /\ UNCHANGED <<script, feeds, rpc, combined, rcache, final,
                   scoreVars, enrichVars, mergeVars, normVars, pageVars, searchVars>>

\* try { goto; waitForFunction; evaluate; return } finally { await browser.close() }:
\* after stage n the next stage follows, after the last one or a throw the close
afterPage(i, n, ok) ==
    IF ok /\ n < Len(PAGE_STAGES) THEN RunTask(PAGE_STAGES[n + 1], rtasks[i].priv, FALSE)
    ELSE RunTask("close", rtasks[i].priv, ~ok)

\* page.goto, the wait for a privacy heading or page.evaluate settled
RunPage(i, n, ok) ==
    /\ rpc = "enrich"
    /\ rtasks[i].st = PAGE_STAGES[n]
    /\ rtasks' = [rtasks EXCEPT ![i] = afterPage(i, n, ok)]
    /\ UNCHANGED <<script, feeds, rpc, combined, results, browsers, rcache, final,
                   scoreVars, enrichVars, mergeVars, normVars, pageVars, searchVars>>

\* the mutant of afterClose: the browser stays open
afterCloseStillOpen(open, i) == open

\* finally { await browser.close() }
afterClose(open, i) == open \ {i}

\* browser.close() settled: the record is returned and the cache write begins,
\* or the pending throw leaves scrapePrivacyForApp
RunClosed(i) ==
    /\ rpc = "enrich"
    /\ rtasks[i].st = "close"
    /\ browsers' = afterClose(browsers, i)
    /\ IF rtasks[i].thrown
       THEN Caught(i)
       ELSE /\ rtasks' = [rtasks EXCEPT ![i] = RunTask("save", RunRecord, FALSE)]
            /\ UNCHANGED results
    /\ UNCHANGED <<script, feeds, rpc, combined, rcache, final,
                   scoreVars, enrichVars, mergeVars, normVars, pageVars, searchVars>>

\* saveCache / writeJson settled: enrichApps pauses and mergePrivacy merges,
\* or the write threw into the catch block
RunSaved(i, wr) ==
    /\ rpc = "enrich"
    /\ rtasks[i].st = "save"
    /\ LET id == combined[i].app_id
       IN  rcache' = [rcache EXCEPT ![id] = fileAfterWrite(@, rtasks[i].priv, wr)]
    /\ IF wr # "ok" THEN Caught(i)
       ELSE IF script = "scrape-privacy"
       THEN /\ rtasks' = [rtasks EXCEPT ![i].st = "sleep"]
            /\ UNCHANGED results
       ELSE Merged(i, rtasks[i].priv)
    /\ UNCHANGED <<script, feeds, rpc, combined, browsers, final,
                   scoreVars, enrichVars, mergeVars, normVars, pageVars, searchVars>>

\* the 500..900 ms pause of enrichApps elapsed
RunSlept(i) ==
    /\ rpc = "enrich"
    /\ rtasks[i].st = "sleep"
    /\ Merged(i, rtasks[i].priv)
    /\ UNCHANGED <<script, feeds, rpc, combined, browsers, rcache, final,
                   scoreVars, enrichVars, mergeVars, normVars, pageVars, searchVars>>

\* enrichedUnique.find(x => key(x) === key(a)) || a
findEnriched(enriched, a) ==
    LET hits == {n \in 1..Len(enriched) : runKey(enriched[n]) = runKey(a)}
    IN  IF hits = {} THEN a
        ELSE enriched[CHOOSE n \in hits : \A m \in hits : n <= m]

\* list.map(a => ({ ...a, ...findEnriched(a), rank: a.rank }))
mapBack(list, enriched) ==
    [j \in 1..Len(list) |-> [findEnriched(enriched, list[j]) EXCEPT !.rank = list[j].rank]]

\* every call returned: run() maps the entries back to the three boards,
\* main() writes the flat list
RunWrite ==
    /\ rpc = "enrich"
    /\ \A i \in 1..Len(rtasks) : rtasks[i].st = "done"
    /\ LET enriched == [i \in 1..Len(combined) |-> results[i]]
       IN  final' = IF script = "scrape-privacy"
                    THEN [k \in 1..3 |-> mapBack(feeds[k], enriched)]
                    ELSE <<enriched>>
    /\ rpc' = "written"
    /\ UNCHANGED <<script, feeds, combined, rtasks, results, browsers, rcache,
                   scoreVars, enrichVars, mergeVars, normVars, pageVars, searchVars>>

RunNext ==
    \/ \E f \in FreeFeeds \X PaidFeeds \X GamesFeeds, failing \in SUBSET (1..3) :
            FetchCharts(f, failing)
    \/ \E i \in 1..Len(rtasks) : RunStart(i)
    \/ \E i \in 1..Len(rtasks) : RunLoaded(i)
    \/ \E i \in 1..Len(rtasks), ok \in BOOLEAN : RunLaunched(i, ok)
    \/ \E i \in 1..Len(rtasks), n \in 1..Len(PAGE_STAGES), ok \in BOOLEAN : RunPage(i, n, ok)
    \/ \E i \in 1..Len(rtasks) : RunClosed(i)
    \/ \E i \in 1..Len(rtasks), wr \in WriteOutcomes : RunSaved(i, wr)
    \/ \E i \in 1..Len(rtasks) : RunSlept(i)
    \/ RunWrite

SpecRun == RunInit /\ [][RunNext]_vars


(***************************************************************************)
(* Claims about the merge back to the boards (SpecRun, SpecMerge).         *)
(***************************************************************************)
\* the entry e has the rank, name and developer of the chart entry a
SameRankNameDeveloper(e, a) ==
    e.rank = a.rank /\ e.name = a.name /\ e.developer = a.developer

\* mergeAppsByName keeps the length of the chart and the rank, name and
\* developer of each of its entries
MergeKeepsChartEntries ==
    mpc = "ready" =>
        \A k \in 1..Len(BOARD_KEYS) :
            LET rss == useLocal(fetched[k], localApps)
            IN  /\ Len(boards[k]) = Len(rss)
                /\ \A i \in 1..Len(rss) : SameRankNameDeveloper(boards[k][i], rss[i])

\* C11: the merge output has the length of the chart input, and the entry at
\* each position has the rank, name and developer of the input entry at that
\* position (here for mapBack of run(); MergeKeepsChartEntries is the same
\* statement for mergeAppsByName).
C11_OutputKeepsChartEntries ==
    (rpc = "written" /\ script = "scrape-privacy") =>
        \A k \in 1..3 :
            /\ Len(final[k]) = Len(feeds[k])
            /\ \A j \in 1..Len(feeds[k]) : SameRankNameDeveloper(final[k][j], feeds[k][j])


(***************************************************************************)
(* Claims about the deduplication (SpecRun).                               *)
(***************************************************************************)
\* the identity key the running script deduplicates by
scriptKey(a) ==
    IF script = "scrape-privacy" THEN runKey(a)
    ELSE IF script = "update-apps" THEN keyFor(a)
    ELSE prevKey(a)

Deduplicated == rpc \in {"enrich", "deduped", "written"}

\* the entries of a list, as a set
Entries(list) == {list[i] : i \in 1..Len(list)}

\* the entries kept are the first occurrences of their keys in free, paid,
\* games order, one per key
KeepsFirstOccurrences ==
    LET all == allApps(feeds)
        first == firstOf([i \in 1..Len(all) |-> scriptKey(all[i])])
    IN  /\ Entries(combined) = {all[i] : i \in first}
        /\ Len(combined) = Cardinality(first)

\* C12: when the three charts are combined and deduplicated, the entry kept
\* for each identity key is its first occurrence in the combined list and the
\* later entries with that key are dropped.
C12_FirstOccurrenceWins == Deduplicated => KeepsFirstOccurrences

\* the same for the two updaters that test the key before they store the entry
FirstOccurrenceWinsInMain ==
    (Deduplicated /\ script # "scrape-privacy") => KeepsFirstOccurrences

\* C13: the deduplicated list holds at most one entry per numeric app_id,
\* whatever the name and developer texts of the chart entries are.
C13_OneEntryPerId ==
    Deduplicated =>
        \A i, j \in 1..Len(combined) :
            (combined[i].app_id # 0 /\ combined[i].app_id = combined[j].app_id) => i = j

\* the same for the two updaters that key an entry by its id
OneEntryPerIdInMain ==
    (Deduplicated /\ script # "scrape-privacy") =>
        \A i, j \in 1..Len(combined) :
            (combined[i].app_id # 0 /\ combined[i].app_id = combined[j].app_id) => i = j


(***************************************************************************)
(* The token clean-up of the extractors: norm (scrape-privacy.mjs),        *)
(* normalise (scripts/scrape-privacy.mjs), cleanTokens (part_003) and      *)
(* canonBucket (part_005).  A token is a sequence of characters; a pattern *)
(* /a\s*b|c/i is the set of its alternatives, each the sequence of the     *)
(* lower-case words that \s* separates; a trailing s? of a word is left    *)
(* out, since it does not change what test() finds.                        *)
(***************************************************************************)
\* word w stands in str at position i
HasAt(str, w, i) ==
    /\ i + Len(w) - 1 <= Len(str)
    /\ SubSeq(str, i, i + Len(w) - 1) = w

RECURSIVE MatchFrom(_, _, _)
\* the words ws stand in str from position i on, with \s* between them
MatchFrom(str, ws, i) ==
    /\ HasAt(str, Head(ws), i)
    /\ \/ Len(ws) = 1
       \/ LET n == i + Len(Head(ws))
          IN  \E k \in 0..(Len(str) - n + 1) :
                /\ \A m \in n..(n + k - 1) : str[m] \in WHITESPACE
                /\ MatchFrom(str, Tail(ws), n + k)

\* /.../i.test(str) for the pattern with the alternatives pats
test(pats, str) ==
    \E ws \in pats : \E i \in 1..Len(str) : MatchFrom(toLowerCase(str), ws, i)

RECURSIVE applyRules(_, _)
\* the chain of `if (/.../i.test(t)) return "..."` ending in `return t`
applyRules(rs, str) ==
    IF rs = <<>> THEN str
    ELSE IF test(Head(rs).pats, str) THEN Head(rs).to
    ELSE applyRules(Tail(rs), str)

\* scrape-privacy.mjs norm: the rules in their order
NORM_RULES ==
    <<
      [pats |-> {<<<<"p","u","r","c","h","a","s","e">>>>},
       to |-> <<"P","u","r","c","h","a","s","e","s">>],
      [pats |-> {<<<<"i","d","e","n","t","i","f","i","e","r">>>>, <<<<"d","e","v","i","c","e"," ","i","d">>>>, <<<<"u","s","e","r"," ","i","d">>>>},
       to |-> <<"I","d","e","n","t","i","f","i","e","r","s">>],
      [pats |-> {<<<<"u","s","a","g","e">>>>, <<<<"p","r","o","d","u","c","t"," ","i","n","t","e","r","a","c","t","i","o","n">>>>, <<<<"p","e","r","f","o","r","m","a","n","c","e"," ","d","a","t","a">>>>},
       to |-> <<"U","s","a","g","e"," ","D","a","t","a">>],
      [pats |-> {<<<<"d","i","a","g","n","o","s","t","i","c">>>>},
       to |-> <<"D","i","a","g","n","o","s","t","i","c","s">>],
      [pats |-> {<<<<"c","o","n","t","a","c","t">>, <<"i","n","f","o">>>>, <<<<"e","m","a","i","l"," ","a","d","d","r","e","s","s">>>>, <<<<"p","h","o","n","e">>>>},
       to |-> <<"C","o","n","t","a","c","t"," ","I","n","f","o">>],
      [pats |-> {<<<<"u","s","e","r">>, <<"c","o","n","t","e","n","t">>>>, <<<<"p","h","o","t","o">>>>, <<<<"v","i","d","e","o">>>>},
       to |-> <<"U","s","e","r"," ","C","o","n","t","e","n","t">>],
      [pats |-> {<<<<"b","r","o","w","s","i","n","g">>>>, <<<<"s","e","a","r","c","h"," ","h","i","s","t","o","r","y">>>>},
       to |-> <<"B","r","o","w","s","i","n","g","/","S","e","a","r","c","h"," ","H","i","s","t","o","r","y">>],
      [pats |-> {<<<<"l","o","c","a","t","i","o","n">>>>},
       to |-> <<"L","o","c","a","t","i","o","n">>],
      [pats |-> {<<<<"h","e","a","l","t","h">>>>},
       to |-> <<"H","e","a","l","t","h"," ","&"," ","F","i","t","n","e","s","s">>],
      [pats |-> {<<<<"f","i","n","a","n","c","i","a","l">>>>},
       to |-> <<"F","i","n","a","n","c","i","a","l"," ","I","n","f","o">>]
    >>

\* scripts/scrape-privacy.mjs normalise: the rules in their order
NORMALISE_RULES ==
    <<
      [pats |-> {<<<<"p","u","r","c","h","a","s","e">>>>},
       to |-> <<"P","u","r","c","h","a","s","e","s">>],
      [pats |-> {<<<<"i","d","e","n","t","i","f","i","e","r">>>>},
       to |-> <<"I","d","e","n","t","i","f","i","e","r","s">>],
      [pats |-> {<<<<"u","s","a","g","e">>>>},
       to |-> <<"U","s","a","g","e"," ","D","a","t","a">>],
      [pats |-> {<<<<"d","i","a","g","n","o","s","t","i","c">>>>, <<<<"c","r","a","s","h">>>>},
       to |-> <<"D","i","a","g","n","o","s","t","i","c","s">>],
      [pats |-> {<<<<"c","o","n","t","a","c","t">>, <<"i","n","f","o">>>>},
       to |-> <<"C","o","n","t","a","c","t"," ","I","n","f","o">>],
      [pats |-> {<<<<"u","s","e","r">>, <<"c","o","n","t","e","n","t">>>>},
       to |-> <<"U","s","e","r"," ","C","o","n","t","e","n","t">>],
      [pats |-> {<<<<"b","r","o","w","s","i","n","g">>>>, <<<<"s","e","a","r","c","h">>, <<"h","i","s","t","o","r","y">>>>},
       to |-> <<"B","r","o","w","s","i","n","g","/","S","e","a","r","c","h"," ","H","i","s","t","o","r","y">>],
      [pats |-> {<<<<"l","o","c","a","t","i","o","n">>>>},
       to |-> <<"L","o","c","a","t","i","o","n">>],
      [pats |-> {<<<<"f","i","n","a","n","c","i","a","l">>>>},
       to |-> <<"F","i","n","a","n","c","i","a","l"," ","I","n","f","o">>],
      [pats |-> {<<<<"p","h","o","t","o">>>>, <<<<"v","i","d","e","o">>>>},
       to |-> <<"P","h","o","t","o","s"," ","o","r"," ","V","i","d","e","o","s">>],
      [pats |-> {<<<<"a","u","d","i","o">>>>},
       to |-> <<"A","u","d","i","o"," ","D","a","t","a">>],
      [pats |-> {<<<<"m","e","s","s","a","g","e">>>>},
       to |-> <<"M","e","s","s","a","g","e","s">>],
      [pats |-> {<<<<"c","o","n","t","a","c","t">>>>},
       to |-> <<"C","o","n","t","a","c","t","s">>],
      [pats |-> {<<<<"h","e","a","l","t","h">>>>, <<<<"f","i","t","n","e","s","s">>>>},
       to |-> <<"H","e","a","l","t","h"," ","&"," ","F","i","t","n","e","s","s">>],
      [pats |-> {<<<<"s","e","n","s","i","t","i","v","e">>>>},
       to |-> <<"S","e","n","s","i","t","i","v","e"," ","I","n","f","o">>]
    >>

\* part_003 ALLOWED
ALLOWED ==
    {
      <<"C","o","n","t","a","c","t"," ","I","n","f","o">>,
      <<"H","e","a","l","t","h"," ","&"," ","F","i","t","n","e","s","s">>,
      <<"F","i","n","a","n","c","i","a","l"," ","I","n","f","o">>,
      <<"L","o","c","a","t","i","o","n">>,
      <<"S","e","n","s","i","t","i","v","e"," ","I","n","f","o">>,
      <<"U","s","e","r"," ","C","o","n","t","e","n","t">>,
      <<"I","d","e","n","t","i","f","i","e","r","s">>, <<"P","u","r","c","h","a","s","e","s">>,
      <<"U","s","a","g","e"," ","D","a","t","a">>,
      <<"D","i","a","g","n","o","s","t","i","c","s">>, <<"C","o","n","t","a","c","t","s">>,
      <<"S","e","a","r","c","h"," ","H","i","s","t","o","r","y">>,
      <<"B","r","o","w","s","i","n","g"," ","H","i","s","t","o","r","y">>,
      <<"B","r","o","w","s","i","n","g","/","S","e","a","r","c","h"," ","H","i","s","t","o","r","y">>,
      <<"A","u","d","i","o"," ","D","a","t","a">>,
      <<"P","h","o","t","o","s"," ","o","r"," ","V","i","d","e","o","s">>,
      <<"M","e","s","s","a","g","e","s">>, <<"O","t","h","e","r"," ","D","a","t","a">>,
      <<"O","t","h","e","r"," ","D","a","t","a"," ","T","y","p","e","s">>,
      <<"C","u","s","t","o","m","e","r"," ","S","u","p","p","o","r","t">>, <<"N","a","m","e">>
    }

\* part_003 cleanTokens: the tokens skipped by /^...$/i
UI_NOISE ==
    {
      <<"a","p","p"," ","p","r","i","v","a","c","y">>,
      <<"s","e","e"," ","d","e","t","a","i","l","s">>,
      <<"l","e","a","r","n"," ","m","o","r","e">>
    }

\* part_003 cleanTokens: if (t.length > 40) continue
MAX_TOKEN_LENGTH == 40

\* part_005 CANON, as the sequence of its key/value pairs
CANON ==
    <<
      <<<<"E","m","a","i","l"," ","A","d","d","r","e","s","s">>,
        <<"E","m","a","i","l"," ","A","d","d","r","e","s","s">>>>,
      <<<<"P","h","o","n","e"," ","N","u","m","b","e","r">>,
        <<"P","h","o","n","e"," ","N","u","m","b","e","r">>>>,
      <<<<"N","a","m","e">>,
        <<"N","a","m","e">>>>,
      <<<<"D","e","v","i","c","e"," ","I","D">>,
        <<"D","e","v","i","c","e"," ","I","D">>>>,
      <<<<"U","s","e","r"," ","I","D">>,
        <<"U","s","e","r"," ","I","D">>>>,
      <<<<"P","r","e","c","i","s","e"," ","L","o","c","a","t","i","o","n">>,
        <<"L","o","c","a","t","i","o","n">>>>,
      <<<<"C","o","a","r","s","e"," ","L","o","c","a","t","i","o","n">>,
        <<"L","o","c","a","t","i","o","n">>>>,
      <<<<"A","p","p","r","o","x","i","m","a","t","e"," ","L","o","c","a","t","i","o","n">>,
        <<"L","o","c","a","t","i","o","n">>>>,
      <<<<"L","o","c","a","t","i","o","n">>,
        <<"L","o","c","a","t","i","o","n">>>>,
      <<<<"C","o","n","t","a","c","t"," ","I","n","f","o">>,
        <<"C","o","n","t","a","c","t"," ","I","n","f","o">>>>,
      <<<<"U","s","e","r"," ","C","o","n","t","e","n","t">>,
        <<"U","s","e","r"," ","C","o","n","t","e","n","t">>>>,
      <<<<"P","h","o","t","o","s"," ","o","r"," ","V","i","d","e","o","s">>,
        <<"P","h","o","t","o","s"," ","o","r"," ","V","i","d","e","o","s">>>>,
      <<<<"P","h","o","t","o","s">>,
        <<"P","h","o","t","o","s"," ","o","r"," ","V","i","d","e","o","s">>>>,
      <<<<"V","i","d","e","o","s">>,
        <<"P","h","o","t","o","s"," ","o","r"," ","V","i","d","e","o","s">>>>,
      <<<<"A","u","d","i","o"," ","D","a","t","a">>,
        <<"A","u","d","i","o"," ","D","a","t","a">>>>,
      <<<<"V","o","i","c","e"," ","D","a","t","a">>,
        <<"A","u","d","i","o"," ","D","a","t","a">>>>,
      <<<<"C","o","n","t","a","c","t","s">>,
        <<"C","o","n","t","a","c","t","s">>>>,
      <<<<"H","e","a","l","t","h"," ","&"," ","F","i","t","n","e","s","s">>,
        <<"H","e","a","l","t","h"," ","&"," ","F","i","t","n","e","s","s">>>>,
      <<<<"H","e","a","l","t","h">>,
        <<"H","e","a","l","t","h"," ","&"," ","F","i","t","n","e","s","s">>>>,
      <<<<"F","i","t","n","e","s","s">>,
        <<"H","e","a","l","t","h"," ","&"," ","F","i","t","n","e","s","s">>>>,
      <<<<"F","i","n","a","n","c","i","a","l"," ","I","n","f","o">>,
        <<"F","i","n","a","n","c","i","a","l"," ","I","n","f","o">>>>,
      <<<<"P","a","y","m","e","n","t"," ","I","n","f","o">>,
        <<"F","i","n","a","n","c","i","a","l"," ","I","n","f","o">>>>,
      <<<<"P","u","r","c","h","a","s","e","s">>,
        <<"P","u","r","c","h","a","s","e","s">>>>,
      <<<<"B","r","o","w","s","i","n","g"," ","H","i","s","t","o","r","y">>,
        <<"B","r","o","w","s","i","n","g","/","S","e","a","r","c","h"," ","H","i","s","t","o","r","y">>>>,
      <<<<"S","e","a","r","c","h"," ","H","i","s","t","o","r","y">>,
        <<"B","r","o","w","s","i","n","g","/","S","e","a","r","c","h"," ","H","i","s","t","o","r","y">>>>,
      <<<<"I","d","e","n","t","i","f","i","e","r","s">>,
        <<"I","d","e","n","t","i","f","i","e","r","s">>>>,
      <<<<"U","s","a","g","e"," ","D","a","t","a">>,
        <<"U","s","a","g","e"," ","D","a","t","a">>>>,
      <<<<"D","i","a","g","n","o","s","t","i","c","s">>,
        <<"D","i","a","g","n","o","s","t","i","c","s">>>>,
      <<<<"C","r","a","s","h"," ","D","a","t","a">>,
        <<"D","i","a","g","n","o","s","t","i","c","s">>>>,
      <<<<"P","e","r","f","o","r","m","a","n","c","e"," ","D","a","t","a">>,
        <<"D","i","a","g","n","o","s","t","i","c","s">>>>,
      <<<<"S","e","n","s","i","t","i","v","e"," ","I","n","f","o">>,
        <<"S","e","n","s","i","t","i","v","e"," ","I","n","f","o">>>>,
      <<<<"M","e","s","s","a","g","e","s">>,
        <<"M","e","s","s","a","g","e","s">>>>,
      <<<<"O","t","h","e","r"," ","D","a","t","a">>,
        <<"O","t","h","e","r"," ","D","a","t","a"," ","T","y","p","e","s">>>>,
      <<<<"O","t","h","e","r"," ","D","a","t","a"," ","T","y","p","e","s">>,
        <<"O","t","h","e","r"," ","D","a","t","a"," ","T","y","p","e","s">>>>
    >>

\* the closed taxonomy of categories
CATEGORY_NAMES ==
    {
      <<"P","u","r","c","h","a","s","e","s">>, <<"I","d","e","n","t","i","f","i","e","r","s">>,
      <<"U","s","a","g","e"," ","D","a","t","a">>,
      <<"D","i","a","g","n","o","s","t","i","c","s">>,
      <<"C","o","n","t","a","c","t"," ","I","n","f","o">>,
      <<"U","s","e","r"," ","C","o","n","t","e","n","t">>,
      <<"B","r","o","w","s","i","n","g","/","S","e","a","r","c","h"," ","H","i","s","t","o","r","y">>,
      <<"L","o","c","a","t","i","o","n">>,
      <<"H","e","a","l","t","h"," ","&"," ","F","i","t","n","e","s","s">>,
      <<"F","i","n","a","n","c","i","a","l"," ","I","n","f","o">>,
      <<"P","h","o","t","o","s"," ","o","r"," ","V","i","d","e","o","s">>,
      <<"A","u","d","i","o"," ","D","a","t","a">>, <<"M","e","s","s","a","g","e","s">>,
      <<"C","o","n","t","a","c","t","s">>,
      <<"S","e","n","s","i","t","i","v","e"," ","I","n","f","o">>,
      <<"O","t","h","e","r"," ","D","a","t","a"," ","T","y","p","e","s">>
    }

\* tokens a page shows besides the category names
PAGE_TOKENS ==
    {
      <<"x","y","z","-","u","n","k","n","o","w","n","-","f","i","e","l","d">>,
      <<" ","D","e","v","i","c","e"," ","I","D"," ">>,
      <<"c","o","n","t","a","c","t"," "," ","i","n","f","o">>,
      <<"C","r","a","s","h"," ","D","a","t","a">>,
      <<"P","r","e","c","i","s","e"," ","L","o","c","a","t","i","o","n">>,
      <<"P","h","o","t","o","s">>, <<"S","e","a","r","c","h"," ","H","i","s","t","o","r","y">>,
      <<"S","e","e"," ","D","e","t","a","i","l","s">>,
      <<"O","t","h","e","r"," ","D","a","t","a">>,
      <<>>,
      <<"L","e","a","r","n"," ","M","o","r","e">>,
      <<"P","r","i","v","a","c","y"," ","P","o","l","i","c","y">>,
      <<"A","p","p"," ","P","r","i","v","a","c","y">>,
      <<"D","a","t","a"," ","t","h","e"," ","d","e","v","e","l","o","p","e","r"," ","m","a","y"," ","u","s","e"," ","t","o"," ","t","r","a","c","k"," ","y","o","u"," ","e","l","s","e","w","h","e","r","e">>
    }

\* what page.evaluate may hand over as a token
TokenPool == CATEGORY_NAMES \cup PAGE_TOKENS

\* scrape-privacy.mjs norm, for one token
norm(v) == applyRules(NORM_RULES, trim(v))

\* scripts/scrape-privacy.mjs normalise, for one token
normalise(v) == applyRules(NORMALISE_RULES, trim(v))

\* CANON[k], <<>> when the key is missing
canonOf(k) ==
    IF \E n \in 1..Len(CANON) : CANON[n][1] = k
    THEN CANON[CHOOSE n \in 1..Len(CANON) : CANON[n][1] = k][2]
    ELSE <<>>

\* t.replace(/s$/, "")
dropFinalS(str) ==
    IF str # <<>> /\ str[Len(str)] = "s" THEN SubSeq(str, 1, Len(str) - 1) ELSE str

\* the mutant of canonBucket: the plural is cut before the table is consulted
canonBucketCutFirst(label) ==
    LET t == dropFinalS(trim(label))
    IN  IF canonOf(t) # <<>> THEN canonOf(t) ELSE t

\* part_005 canonBucket: CANON[t] || CANON[t.replace(/s$/, "")] || t
canonBucket(label) ==
    LET t == trim(label)
    IN  IF canonOf(t) # <<>> THEN canonOf(t)
        ELSE IF canonOf(dropFinalS(t)) # <<>> THEN canonOf(dropFinalS(t))
        ELSE t

\* part_003 cleanTokens, for one token: <<>> when the token is skipped
cleanToken(rawTok) ==
    LET t == trim(collapseWs(rawTok))
    IN  IF t = <<>> \/ toLowerCase(t) \in UI_NOISE \/ Len(t) > MAX_TOKEN_LENGTH THEN <<>>
        ELSE IF t \in ALLOWED THEN t
        ELSE <<>>

RECURSIVE unique(_)
\* Array.from(new Set(arr)): the first occurrence of each value, in order
unique(arr) ==
    IF arr = <<>> THEN <<>>
    ELSE LET front == unique(SubSeq(arr, 1, Len(arr) - 1))
             x == arr[Len(arr)]
         IN  IF \E n \in 1..Len(front) : front[n] = x THEN front ELSE Append(front, x)

EXTRACTORS == {"norm", "normalise", "cleanTokens", "canonBucket"}

\* the clean-up of extractor ex for one token
cleanOne(ex, tok) ==
    IF ex = "norm" THEN norm(tok)
    ELSE IF ex = "normalise" THEN normalise(tok)
    ELSE IF ex = "cleanTokens" THEN cleanToken(tok)
    ELSE canonBucket(tok)

\* the clean-up of a list of tokens: cleanTokens pushes only the tokens it
\* keeps, the others map every token; the values are made unique
cleanAll(ex, toks) ==
    LET mapped == [n \in 1..Len(toks) |-> cleanOne(ex, toks[n])]
    IN  unique(SelectSeq(mapped, LAMBDA x : ex # "cleanTokens" \/ x # <<>>))



(***************************************************************************)
(* SpecNorm: one extraction's harvest of the texts under the three titles  *)
(* and their clean-up into the buckets of the record.  For canonBucket the *)
(* lists are the subtypes of the details rows, the only values part_005    *)
(* passes through it.                                                      *)
(***************************************************************************)
MaxTokens == 1

\* the characters \w matches
WORD_CHARS == DOMAIN LOWER \cup {LOWER[c] : c \in DOMAIN LOWER} \cup {DIGITS[n] : n \in 1..Len(DIGITS)} \cup {"_"}

\* the character classes of the harvest filters /^[...]+$/
CHIP_CHARS ==
    [ norm |-> WORD_CHARS \cup WHITESPACE \cup {"/", "(", ")", "&", "-"},
      normalise |-> WORD_CHARS \cup WHITESPACE \cup {"/", "(", ")", "'", "-"} ]

\* the longest text the harvest of an extractor keeps
NORM_MAX_LENGTH == 40
NORMALISE_MAX_LENGTH == 48

\* scrape-privacy.mjs harvest: texts holding one of these are dropped
TITLE_PHRASES ==
    { <<<<"d","a","t","a"," ","u","s","e","d"," ","t","o"," ","t","r","a","c","k"," ","y","o","u">>>>,
      <<<<"d","a","t","a"," ","l","i","n","k","e","d"," ","t","o"," ","y","o","u">>>>,
      <<<<"d","a","t","a"," ","n","o","t"," ","l","i","n","k","e","d"," ","t","o"," ","y","o","u">>>>,
      <<<<"a","p","p"," ","p","r","i","v","a","c","y">>>> }

\* scripts/scrape-privacy.mjs harvest: the generic words
GENERIC_WORDS ==
    { <<"s","e","e"," ","d","e","t","a","i","l","s">>,
      <<"d","e","t","a","i","l","s">>,
      <<"l","e","a","r","n"," ","m","o","r","e">> }

\* does the harvest of extractor ex keep the trimmed text t
harvestKeeps(ex, t) ==
    /\ t # <<>>
    /\ ex = "norm" =>
         /\ Len(t) <= NORM_MAX_LENGTH
         /\ \A n \in 1..Len(t) : t[n] \in CHIP_CHARS.norm
         /\ ~test(TITLE_PHRASES, t)
    /\ ex = "normalise" =>
         /\ Len(t) <= NORMALISE_MAX_LENGTH
         /\ toLowerCase(t) \notin GENERIC_WORDS
         /\ \A n \in 1..Len(t) : t[n] \in CHIP_CHARS.normalise
    /\ ex = "canonBucket" => Len(t) <= NORMALISE_MAX_LENGTH

harvestedCount == Len(harvested[TRACK]) + Len(harvested[LINKED]) + Len(harvested[NOT_LINKED])

NormInit ==
    /\ extractor \in EXTRACTORS
    /\ harvested = [h \in HEADS |-> <<>>]
    /\ composed = [h \in HEADS |-> <<>>]
    /\ npc = "harvest"
    /\ ScoreIdle /\ PipelineIdle /\ MergeIdle /\ RunIdle
    /\ PageIdle /\ SearchIdle

\* page.evaluate meets the text under title h: trimmed, filtered, made unique
Harvest(h, text) ==
    /\ npc = "harvest"
    /\ harvestedCount < MaxTokens
    /\ LET t == trim(text)
       IN  /\ harvestKeeps(extractor, t)
           /\ harvested' = [harvested EXCEPT ![h] = unique(Append(@, t))]
    /\ UNCHANGED <<extractor, composed, npc>>
    /\ UNCHANGED <<scoreVars, enrichVars, mergeVars, runVars, pageVars, searchVars>>

\* the buckets of the record are composed from the harvested texts
Compose ==
    /\ npc = "harvest"
    /\ composed' = [h \in HEADS |-> cleanAll(extractor, harvested[h])]
    /\ npc' = "composed"
    /\ UNCHANGED <<extractor, harvested>>
    /\ UNCHANGED <<scoreVars, enrichVars, mergeVars, runVars, pageVars, searchVars>>

\* the clean-up is applied to its own output
Recompose ==
    /\ npc = "composed"
    /\ composed' = [h \in HEADS |-> cleanAll(extractor, composed[h])]
    /\ npc' = "again"
    /\ UNCHANGED <<extractor, harvested>>
    /\ UNCHANGED <<scoreVars, enrichVars, mergeVars, runVars, pageVars, searchVars>>

NormNext ==
    \/ \E h \in HEADS, text \in TokenPool : Harvest(h, text)
    \/ Compose
    \/ Recompose

SpecNorm == NormInit /\ [][NormNext]_vars

\* C14: every category name in a bucket of the record an extractor returns
\* is a member of the closed taxonomy; a token that matches no rule and is no
\* member never reaches a bucket.
C14_BucketsWithinTaxonomy ==
    (npc = "composed" /\ extractor \in {"norm", "normalise", "cleanTokens"}) =>
        \A h \in HEADS : \A n \in 1..Len(composed[h]) : composed[h][n] \in CATEGORY_NAMES

\* the same for the one extractor that filters by its allowed set
CleanTokensWithinAllowed ==
    (npc = "composed" /\ extractor = "cleanTokens") =>
        \A h \in HEADS : \A n \in 1..Len(composed[h]) : composed[h][n] \in ALLOWED

\* C15: normalising the output of norm, normalise or canonBucket again
\* returns the same value, for the taxonomy members and for every token the
\* normaliser lets through.
C15_NormalisationIdempotent ==
    [][(npc = "composed" /\ npc' = "again" /\ extractor \in {"norm", "normalise", "canonBucket"})
         => composed' = composed]_vars

\* a category name that a normaliser maps to another name has been
\* normalised a second time
C15_RenormalisedWitness ==
    /\ npc = "again"
    /\ extractor \in {"norm", "normalise", "canonBucket"}
    /\ \E h \in HEADS :
         /\ harvested[h] # <<>>
         /\ harvested[h][1] \in CATEGORY_NAMES
         /\ composed[h] # <<>>
         /\ composed[h][1] # harvested[h][1]


(***************************************************************************)
(* SpecRun: the browsers and the scheduling of the enrichment calls.       *)
(***************************************************************************)
\* the positions at which a call is outside launch..close of scrapePrivacyForApp
OUTSIDE_BROWSER == {"queued", "load", "launch", "save", "sleep", "done"}

\* C16: an extraction that launched a browser has closed it when
\* scrapePrivacyForApp returns or throws, so no call outside the try block
\* holds a browser and none is open once every call has returned.
C16_BrowserClosedOnExit ==
    /\ \A i \in 1..Len(rtasks) : rtasks[i].st \in OUTSIDE_BROWSER => i \notin browsers
    /\ rpc = "written" => browsers = {}

\* a call whose page step threw has returned, another one returned its
\* record, and the run is over
C16_ThrownAndClosedWitness ==
    /\ rpc = "written"
    /\ \E i \in 1..Len(rtasks) : rtasks[i].thrown
    /\ \E i \in 1..Len(rtasks) : results[i].privacy_labels = RunRecord.privacy_labels


\* C17: at every moment of an enrichment run of enrichApps at most 3 calls
\* are between the start of their cache read and the return of their entry.
C17_AtMostThreeInProgress ==
    script = "scrape-privacy" => Cardinality(InProgress) <= CONCURRENCY

\* the sequential loop of main() has one call in progress
OneAtATimeInMain ==
    script = "update-apps" => Cardinality(InProgress) <= 1

\* three calls are in progress while an entry with an id waits for a slot
C17_FullWitness ==
    /\ script = "scrape-privacy"
    /\ rpc = "enrich"
    /\ Cardinality(InProgress) = CONCURRENCY
    /\ \E i \in 1..Len(rtasks) : rtasks[i].st = "queued" /\ combined[i].app_id # 0


\* the calls that have begun to process their entry's id
Processing(id) ==
    {i \in 1..Len(rtasks) : combined[i].app_id = id /\ rtasks[i].st # "queued"}

\* C18: within one run each numeric id is processed by at most one
\* enrichment call, so no two calls read, scrape and write the cache entry
\* of the same app_id.
C18_OneTaskPerId ==
    \A id \in RunIds : Cardinality(Processing(id)) <= 1

\* reachable for run(): two calls are about to write the cache file of the same id
TwoWritersOfOneId ==
    \E i, j \in 1..Len(rtasks) :
        /\ i # j
        /\ combined[i].app_id = combined[j].app_id
        /\ rtasks[i].st = "save"
        /\ rtasks[j].st = "save"

\* update-apps main() processes an id once
OneTaskPerIdInMain ==
    script = "update-apps" => \A id \in RunIds : Cardinality(Processing(id)) <= 1


\* what enrichApps may return for the entry a: a itself, or a merged with the
\* record the cache held or the scrape returned
EnrichmentsOf(a) ==
    {a} \cup (IF a.app_id = 0 THEN {}
              ELSE {enrichMerge(a, rec) : rec \in {RunRecord, readJson(RunCache, a.app_id)}})

\* C19: whatever the order in which the calls complete, the entry at
\* position i of the result of enrichApps is the enrichment of the input entry
\* at position i, and the entries of each board keep their chart rank.
C19_ResultFollowsInputOrder ==
    script = "scrape-privacy" =>
        /\ \A i \in DOMAIN results :
              i \in 1..Len(combined) /\ results[i] \in EnrichmentsOf(combined[i])
        /\ rpc = "written" =>
              \A k \in 1..3 :
                  /\ Len(final[k]) = Len(feeds[k])
                  /\ \A j \in 1..Len(feeds[k]) : final[k][j].rank = feeds[k][j].rank

\* a later call has returned its enriched entry before an earlier one returned
C19_OutOfOrderWitness ==
    /\ script = "scrape-privacy"
    /\ \E i \in DOMAIN results :
         /\ results[i].privacy_labels.present
         /\ \E j \in 1..(i - 1) : j \notin DOMAIN results /\ combined[j].app_id # 0


(***************************************************************************)
(* A chart fetch that fails.                                               *)
(***************************************************************************)
\* C20: the failure of one chart fetch does not abort the others: once the
\* fetches have settled, the run goes on with the charts that did load.
C20_LoadedChartsSurviveFailure ==
    (rpc # "start" /\ \E k \in 1..3 : feeds[k] # <<>>) => combined # <<>>

\* loadBoards of script.js: a board whose fetch failed shows the local
\* entries, the others show their chart
LoadBoardsSurvivesFailure ==
    mpc = "ready" =>
        \A k \in 1..Len(BOARD_KEYS) :
            Len(boards[k]) = IF fetched[k] = <<>> THEN Len(localApps) ELSE Len(fetched[k])


(***************************************************************************)
(* Claims about unparsable cache files and failing extractions             *)
(* (SpecEnrich, SpecRun).                                                  *)
(***************************************************************************)
\* the run found a cache file for the id of entry i that does not parse
CorruptAtStart(i) == IdOf(i) # 0 /\ fileOf(cache0, IdOf(i)).kind = "corrupt"

\* C21: a cache file that cannot be parsed is a cache miss: the step does not
\* fail, it calls scrapePrivacyForApp for the id and, when the scrape
\* succeeds, writes the new record over the file.
C21_CorruptFileIsMiss ==
    pc = "run" =>
        \A i \in Positions :
            CorruptAtStart(i) =>
                /\ i \in DOMAIN out =>
                     /\ IdOf(i) \in loaded
                     /\ IdOf(i) \in scraped
                     /\ IdOf(i) \notin failed => IdOf(i) \in written
                /\ (variant = "enrichApps" /\ tasks[i].st = "sleep") =>
                     cache[IdOf(i)] = File(tasks[i].priv)
                /\ (variant = "mergePrivacy" /\ i \in DOMAIN out
                        /\ out[i].privacy_labels.present) =>
                     /\ cache[IdOf(i)].kind = "record"
                     /\ cache[IdOf(i)].rec.as_of = now
                     /\ cache[IdOf(i)].rec.privacy_labels = out[i].privacy_labels

\* an entry whose cache file did not parse was scraped, the file now holds
\* the new record and the entry its labels
C21_Witness ==
    /\ pc = "run"
    /\ \E i \in DOMAIN out :
         /\ CorruptAtStart(i)
         /\ IdOf(i) \in scraped
         /\ cache[IdOf(i)].kind = "record"
         /\ cache[IdOf(i)].rec.as_of = now
         /\ out[i].privacy_labels = cache[IdOf(i)].rec.privacy_labels


\* the flat list of the written file: finalJson.apps of run(), the
\* concatenation of the three boards; result.apps of main()
outputApps ==
    IF script = "scrape-privacy" THEN final[1] \o final[2] \o final[3] ELSE final[1]

\* how often the app of the enriched entry i is in the written list
TimesInOutput(i) ==
    Cardinality({n \in 1..Len(outputApps) : scriptKey(outputApps[n]) = scriptKey(combined[i])})

\* C22: whatever extractions and cache writes fail, the run completes and
\* writes the aggregate output, and every app that entered the enrichment is
\* in it exactly once.
C22_EveryAppOnceInOutput ==
    rpc = "written" => \A i \in 1..Len(combined) : TimesInOutput(i) = 1

\* main() of update-apps.mjs writes every enriched entry once
EveryAppOnceInMain ==
    (rpc = "written" /\ script = "update-apps") =>
        \A i \in 1..Len(combined) : TimesInOutput(i) = 1

\* run() writes every enriched entry at least once
EveryAppInOutput ==
    rpc = "written" => \A i \in 1..Len(combined) : TimesInOutput(i) >= 1

\* the run with its steps taken as long as one is possible
SpecRunFair == SpecRun /\ WF_vars(RunNext)

\* once the charts are combined, the output is written whatever fails
RunCompletes == (rpc = "enrich") ~> (rpc = "written")


(***************************************************************************)
(* SpecPage: one call of scrapePrivacyForApp on one store page, by each of *)
(* the four extractors: the load of the page, the waits for the headings   *)
(* (scrape-privacy.mjs only), page.evaluate and the record composed from   *)
(* what it harvested.                                                      *)
(***************************************************************************)
MaxRows == 2

CHIP_IDENTIFIERS == <<"I","d","e","n","t","i","f","i","e","r","s">>
CHIP_LOCATION == <<"L","o","c","a","t","i","o","n">>

\* the chips a page may show under one title
ChipLists ==
    {<<>>, <<CHIP_IDENTIFIERS>>, <<CHIP_LOCATION>>, <<CHIP_LOCATION, CHIP_IDENTIFIERS>>}

\* the rows of the detailed breakdown a page may show: the label of the row
\* and its whole text
DetailRows ==
    { [label |-> CHIP_IDENTIFIERS,
       text |-> <<"I","d","e","n","t","i","f","i","e","r","s"," ","D","e","v","i","c","e"," ","I","D"," ","A","n","a","l","y","t","i","c","s">>],
      [label |-> CHIP_IDENTIFIERS,
       text |-> <<"I","d","e","n","t","i","f","i","e","r","s"," ","U","s","e","d"," ","t","o"," ","T","r","a","c","k"," ","Y","o","u">>],
      [label |-> CHIP_LOCATION,
       text |-> <<"L","o","c","a","t","i","o","n"," ","L","i","n","k","e","d"," ","t","o"," ","Y","o","u">>],
      [label |-> CHIP_LOCATION,
       text |-> <<"L","o","c","a","t","i","o","n"," ","N","o","t"," ","L","i","n","k","e","d"," ","t","o"," ","Y","o","u">>] }

\* the pages extractor ex may meet: the headings are there after the first
\* load, only after the load of the plain URL, or never; a page without
\* headings has no sections to harvest; only part_005 reads the rows
Sites(ex) ==
    {[appear |-> a, chips |-> c, rows |-> r] :
        a \in {"load", "reload"}, c \in [HEADS -> ChipLists],
        r \in {x \in SUBSET DetailRows :
                 Cardinality(x) <= MaxRows /\ (ex # "canonBucket" => x = {})}}
    \cup {NoSite}

\* part_005 grabDetails: /track/i, /link(ed)? to you/i and /not linked/i
\* tested on the text of the row
rowFlags(text) ==
    [tracked |-> test({<<<<"t","r","a","c","k">>>>}, text),
     linked |-> test({<<<<"l","i","n","k"," ","t","o"," ","y","o","u">>>>, <<<<"l","i","n","k","e","d"," ","t","o"," ","y","o","u">>>>}, text),
     notLinked |-> test({<<<<"n","o","t"," ","l","i","n","k","e","d">>>>}, text)]

\* arr.includes(x)
includes(arr, x) == \E n \in 1..Len(arr) : arr[n] = x

\* the flag of a details entry that belongs to a title
flagOf(d, h) ==
    IF h = TRACK THEN d.tracked ELSE IF h = LINKED THEN d.linked ELSE d.notLinked

\* scripts/scrape-privacy.mjs and part_003: privacy_details has an entry for
\* every category of a bucket, flagged by the buckets that hold it
detailsFromBuckets(b) ==
    [cat \in UNION {{b[h][n] : n \in 1..Len(b[h])} : h \in HEADS} |->
        [tracked |-> includes(b[TRACK], cat),
         linked |-> includes(b[LINKED], cat),
         notLinked |-> includes(b[NOT_LINKED], cat)]]

\* part_005: details[bucket.trim()], the flags of the rows with that label
\* joined by ||
detailsFromRows(rows) ==
    [key \in {trim(r.label) : r \in rows} |->
        [tracked |-> \E r \in rows : trim(r.label) = key /\ rowFlags(r.text).tracked,
         linked |-> \E r \in rows : trim(r.label) = key /\ rowFlags(r.text).linked,
         notLinked |-> \E r \in rows : trim(r.label) = key /\ rowFlags(r.text).notLinked]]

\* privacy_labels of the record: the harvested chips cleaned by the
\* extractor's normaliser; part_005 takes raw.buckets as they are
recordBuckets(ex, chips) ==
    [h \in HEADS |->
        IF ex = "canonBucket" THEN unique(chips[h])
        ELSE cleanAll(ex, SelectSeq(chips[h], LAMBDA c : harvestKeeps(ex, c)))]

\* privacy_details of the record; scrape-privacy.mjs composes none
recordDetails(ex, b, rows) ==
    IF ex = "norm" THEN <<>>
    ELSE IF ex = "canonBucket" THEN detailsFromRows(rows)
    ELSE detailsFromBuckets(b)

\* does the page show its headings now
headingsVisible ==
    \/ webpage.appear = "load"
    \/ webpage.appear = "reload" /\ reloads > 0

Thrown == [NothingReturned EXCEPT !.kind = "error"]

PageInit ==
    /\ pex \in EXTRACTORS
    /\ webpage \in Sites(pex)
    /\ ppc = "goto"
    /\ reloads = 0
    /\ returned = NothingReturned
    /\ ScoreIdle /\ PipelineIdle /\ MergeIdle /\ RunIdle /\ NormIdle /\ SearchIdle

\* await page.goto(url): scrape-privacy.mjs goes on to its first wait, the
\* others to page.evaluate; a navigation timeout leaves the function
Goto(ok) ==
    /\ ppc = "goto"
    /\ IF ok
       THEN /\ ppc' = IF pex = "norm" THEN "wait" ELSE "evaluate"
            /\ UNCHANGED returned
       ELSE /\ ppc' = "thrown"
            /\ returned' = Thrown
    /\ UNCHANGED <<pex, webpage, reloads>>
    /\ UNCHANGED <<scoreVars, enrichVars, mergeVars, runVars, normVars, searchVars>>

\* try { await page.waitForFunction(headings, 6000) } catch { reload }
FirstWait ==
    /\ ppc = "wait"
    /\ ppc' = IF headingsVisible THEN "final" ELSE "reload"
    /\ UNCHANGED <<pex, webpage, reloads, returned>>
    /\ UNCHANGED <<scoreVars, enrichVars, mergeVars, runVars, normVars, searchVars>>

\* await page.goto(urlPlain, networkidle2) inside the catch block
Reload(ok) ==
    /\ ppc = "reload"
    /\ reloads' = reloads + 1
    /\ IF ok
       THEN /\ ppc' = "final"
            /\ UNCHANGED returned
       ELSE /\ ppc' = "thrown"
            /\ returned' = Thrown
    /\ UNCHANGED <<pex, webpage>>
    /\ UNCHANGED <<scoreVars, enrichVars, mergeVars, runVars, normVars, searchVars>>

\* await page.waitForFunction(headings, WAIT_MS) resolves when a heading is
\* there, else it rejects with a TimeoutError
FinalWait ==
    /\ ppc = "final"
    /\ IF headingsVisible
       THEN /\ ppc' = "evaluate"
            /\ UNCHANGED returned
       ELSE /\ ppc' = "thrown"
            /\ returned' = Thrown
    /\ UNCHANGED <<pex, webpage, reloads>>
    /\ UNCHANGED <<scoreVars, enrichVars, mergeVars, runVars, normVars, searchVars>>

\* page.evaluate harvests the sections of the headings it finds and the
\* record is composed and returned; an evaluation error leaves the function
Evaluate(ok) ==
    /\ ppc = "evaluate"
    /\ IF ok
       THEN LET chips == IF headingsVisible THEN webpage.chips ELSE NoSite.chips
                b == recordBuckets(pex, chips)
            IN  /\ returned' = [kind |-> "record", buckets |-> b,
                                details |-> recordDetails(pex, b, webpage.rows)]
                /\ ppc' = "returned"
       ELSE /\ ppc' = "thrown"
            /\ returned' = Thrown
    /\ UNCHANGED <<pex, webpage, reloads>>
    /\ UNCHANGED <<scoreVars, enrichVars, mergeVars, runVars, normVars, searchVars>>

PageNext ==
    \/ \E ok \in BOOLEAN : Goto(ok)
    \/ FirstWait
    \/ \E ok \in BOOLEAN : Reload(ok)
    \/ FinalWait
    \/ \E ok \in BOOLEAN : Evaluate(ok)

SpecPage == PageInit /\ [][PageNext]_vars


\* C23: in a record an extractor returns, a category that is in the bucket of
\* a title and has a details entry has the flag of that title set in it.
C23_FlagsAgreeWithBuckets ==
    returned.kind = "record" =>
        \A h \in HEADS : \A n \in 1..Len(returned.buckets[h]) :
            LET cat == returned.buckets[h][n]
            IN  cat \in DOMAIN returned.details => flagOf(returned.details[cat], h)

\* the extractors that derive the details from the buckets keep them in step
DerivedFlagsAgree ==
    (returned.kind = "record" /\ pex \in {"normalise", "cleanTokens"}) =>
        \A h \in HEADS : \A n \in 1..Len(returned.buckets[h]) :
            /\ returned.buckets[h][n] \in DOMAIN returned.details
            /\ flagOf(returned.details[returned.buckets[h][n]], h)

\* C24: the extractor returns a record only if a heading was located: after a
\* first wait without headings it loads the plain URL once, and when the
\* headings are still missing it throws, so no record is returned for a page
\* whose headings never appeared.
C24_RecordOnlyWithHeadings ==
    pex \in {"norm", "normalise"} =>
        /\ reloads <= 1
        /\ returned.kind = "record" => headingsVisible
        /\ (ppc = "final" /\ webpage.appear # "load") => reloads = 1

\* scrape-privacy.mjs alone waits for the headings
ScrapePrivacyWaitsForHeadings ==
    pex = "norm" =>
        /\ reloads <= 1
        /\ returned.kind = "record" => headingsVisible
        /\ (ppc = "final" /\ webpage.appear # "load") => reloads = 1
        /\ (ppc \in {"evaluate", "returned"}) => headingsVisible


(***************************************************************************)
(* Claims about the noise of the page (SpecNorm).                          *)
(***************************************************************************)
\* the texts of the user interface that are no category names
NOISE_WORDS ==
    { <<"s","e","e"," ","d","e","t","a","i","l","s">>,
      <<"l","e","a","r","n"," ","m","o","r","e">>,
      <<"p","r","i","v","a","c","y"," ","p","o","l","i","c","y">>,
      <<"a","p","p"," ","p","r","i","v","a","c","y">> }

\* a token that is empty, longer than 48 characters or a text of the
\* user interface
IsNoise(t) ==
    \/ t = <<>>
    \/ Len(t) > NORMALISE_MAX_LENGTH
    \/ toLowerCase(t) \in NOISE_WORDS

\* C25: no token that is empty, longer than 48 characters or equal, whatever
\* its case, to "see details", "learn more", "privacy policy" or "app privacy"
\* is in a bucket that harvest and the normalisation produce.
C25_NoNoiseInBuckets ==
    (npc = "composed" /\ extractor \in {"norm", "normalise"}) =>
        \A h \in HEADS : \A n \in 1..Len(composed[h]) : ~IsNoise(composed[h][n])

\* the empty and the overlong token are kept out of the buckets
NoEmptyOrLongInBuckets ==
    (npc = "composed" /\ extractor \in {"norm", "normalise"}) =>
        \A h \in HEADS : \A n \in 1..Len(composed[h]) :
            composed[h][n] # <<>> /\ Len(composed[h][n]) <= NORMALISE_MAX_LENGTH

(***************************************************************************)
(* SpecSingle: computePrivacyScore on an entry with one category in one    *)
(* bucket, the category drawn from the whole taxonomy and its purposes     *)
(* from the whole PURPOSE_BONUS table.                                     *)
(***************************************************************************)
AllCats == {TAXONOMY[n] : n \in 1..Len(TAXONOMY)}
AllPurposes == {PURPOSES[n] : n \in 1..Len(PURPOSES)}

\* an entry whose only category is cat, listed under head, without details
SingleApp(head, cat) ==
    [privacy_labels |-> [present |-> TRUE,
                         buckets |-> [h \in HEADS |-> IF h = head THEN {cat} ELSE {}]],
     privacy_details |-> [c \in {cat} |-> NoDetail]]

SingleInit ==
    /\ \E head \in HEADS, cat \in AllCats : app = SingleApp(head, cat)
    /\ risk = computePrivacyScore(app)
    /\ PipelineIdle
    /\ MergeIdle
    /\ RunIdle
    /\ NormIdle
    /\ PageIdle
    /\ SearchIdle

SingleNext ==
    \/ \E cat \in DOMAIN app.privacy_details, p \in AllPurposes : AddPurpose(cat, p)
    \/ \E cat \in DOMAIN app.privacy_details : MarkTracked(cat)

SpecSingle == SingleInit /\ [][SingleNext]_vars

\* the bucket the entry's category is listed under, and the category
singleHead == CHOOSE h \in HEADS : sectionItems(app, h) # {}
singleCat == CHOOSE c \in AllCats : c \in sectionItems(app, singleHead)

\* the score of the bucket under head, in units of 1/Scale, and its cap
partOf(head) ==
    IF head = TRACK THEN risk.parts.sTrack
    ELSE IF head = LINKED THEN risk.parts.sLinked
    ELSE risk.parts.sNotLinked
capOf(head) ==
    IF head = TRACK THEN SECTION_CAPS.track
    ELSE IF head = LINKED THEN SECTION_CAPS.linked
    ELSE SECTION_CAPS.notLinked

(***************************************************************************)
(* C26: the weight tables.                                                 *)
(***************************************************************************)
\* the three weights of a category, in the order track, linked, notLinked
weightsOf(cat) ==
    << RISK_WEIGHTS.track[cat], RISK_WEIGHTS.linked[cat], RISK_WEIGHTS.notLinked[cat] >>

\* C26: for every category of the taxonomy (the category of the entry) the
\* weight in the tracking table is strictly greater than its weight in the
\* linked table, which is strictly greater than its weight in the not-linked
\* table.
C26_WeightsStrictlyDecrease ==
    LET w == weightsOf(singleCat)
    IN  w[1] > w[2] /\ w[2] > w[3]

\* what the tables do satisfy: tracking strictly above linked, linked at
\* least not-linked, with equality for "Diagnostics" only
WeightsDecrease ==
    LET w == weightsOf(singleCat)
    IN  /\ w[1] > w[2]
        /\ w[2] >= w[3]
        /\ (w[2] = w[3]) <=> (singleCat = "Diagnostics")

(***************************************************************************)
(* C27: a bucket with a single category and its cap.                       *)
(***************************************************************************)
\* C27: a bucket that contains a single category never reaches its cap,
\* whatever purposes and tracked flag the category's details carry.
C27_SingleCategoryBelowCap ==
    partOf(singleHead) < capOf(singleHead) * Scale

\* the tracking and the linked bucket do stay below their caps
SingleCategoryBelowCapOutsideNotLinked ==
    singleHead # NOT_LINKED => partOf(singleHead) < capOf(singleHead) * Scale

\* the not-linked bucket stays below its cap while the category has no details
SingleCategoryBelowCapWithoutDetails ==
    ~app.privacy_details[singleCat].present
        => partOf(singleHead) < capOf(singleHead) * Scale

(***************************************************************************)
(* SpecSearch: the search box of script.js.  An input event renders the    *)
(* local results and (re)arms the 300 ms timer; the timer starts a live    *)
(* request; a response renders the merged list for the request's query.    *)
(***************************************************************************)
\* how many input events a behaviour has
MaxInputs == 3

\* the values of the search box
INPUT_VALUES == { <<>>, <<" ">>, <<"a">>, <<"A", " ">>, <<"a", "b">> }

\* const q = input.value.trim().toLowerCase()
queryOf(value) == toLowerCase(trim(value))

\* searchAbort.abort(): the request of controller n is aborted if in flight
abort(reqs, n) ==
    IF n # 0 /\ reqs[n].st = "inflight"
    THEN [reqs EXCEPT ![n].st = "aborted"]
    ELSE reqs

SearchInit ==
    /\ SearchIdle
    /\ \E withLabels \in BOOLEAN : app = EmptyApp(withLabels)
    /\ risk = computePrivacyScore(app)
    /\ PipelineIdle
    /\ MergeIdle
    /\ RunIdle
    /\ NormIdle
    /\ PageIdle

\* the input handler
Input(value) ==
    LET q == queryOf(value)
    IN  /\ typed < MaxInputs
        /\ typed' = typed + 1
        /\ query' = q
        /\ IF q = <<>>
           THEN /\ resultsFor' = NoResults
                /\ requests' = abort(requests, searchAbort)
                /\ UNCHANGED debounce
           ELSE /\ resultsFor' = [q |-> q, live |-> FALSE]
                /\ debounce' = <<q>>
                /\ UNCHANGED requests
        /\ UNCHANGED <<searchAbort, scoreVars, enrichVars, mergeVars, runVars, normVars, pageVars>>

\* the timer callback up to the await: liveSearchAllApps(q) aborts the
\* previous controller and starts a request with a new one
TimerFires ==
    /\ debounce # <<>>
    /\ requests' = Append(abort(requests, searchAbort), [q |-> debounce[1], st |-> "inflight"])
    /\ searchAbort' = Len(requests) + 1
    /\ debounce' = <<>>
    /\ UNCHANGED <<query, resultsFor, typed, scoreVars, enrichVars, mergeVars, runVars, normVars, pageVars>>

\* the request of controller n resolves and the callback renders the merged list
Response(n) ==
    /\ requests[n].st = "inflight"
    /\ requests' = [requests EXCEPT ![n].st = "done"]
    /\ resultsFor' = [q |-> requests[n].q, live |-> TRUE]
    /\ UNCHANGED <<query, debounce, searchAbort, typed, scoreVars, enrichVars, mergeVars, runVars, normVars, pageVars>>

\* the request of controller n fails (network error or a non-ok status):
\* the callback logs a warning and renders nothing
ResponseFails(n) ==
    /\ requests[n].st = "inflight"
    /\ requests' = [requests EXCEPT ![n].st = "failed"]
    /\ UNCHANGED <<query, resultsFor, debounce, searchAbort, typed, scoreVars, enrichVars, mergeVars, runVars, normVars, pageVars>>

SearchNext ==
    \/ \E value \in INPUT_VALUES : Input(value)
    \/ TimerFires
    \/ \E n \in 1..Len(requests) : Response(n)
    \/ \E n \in 1..Len(requests) : ResponseFails(n)

SpecSearch == SearchInit /\ [][SearchNext]_vars

\* C28: the result list always corresponds to the most recent query: while
\* the search box holds a non-empty query, the list shown was rendered for
\* that query (no response for an older query is rendered over it).
C28_ResultsForLatestQuery ==
    query # <<>> => resultsFor.q = query

\* the list rendered by the input handler itself is for the current query
\* until a response replaces it
LocalResultsAreCurrent ==
    ~resultsFor.live => resultsFor.q = query

\* starting a request aborts the one before it: at most one is in flight
AtMostOneRequestInFlight ==
    Cardinality({n \in 1..Len(requests) : requests[n].st = "inflight"}) <= 1

\* an emptied search box shows no results (violated: the empty branch of the
\* handler does not clear the timer armed by the last non-empty query, and
\* the response of its request is rendered)
EmptyQueryShowsNothing ==
    query = <<>> => resultsFor = NoResults

(***************************************************************************)
(* C29: tracking_summary and privacy_labels of the written entries.        *)
(***************************************************************************)
\* the summary of entry e says what the buckets of e say
summaryAgrees(e) ==
    e.privacy_labels.present =>
        /\ e.tracking_summary.present
        /\ e.tracking_summary.track = (e.privacy_labels.buckets[TRACK] # {})
        /\ e.tracking_summary.linked = (e.privacy_labels.buckets[LINKED] # {})

\* C29: in every entry written by the updater, tracking_summary agrees with
\* privacy_labels: tracking is disclosed exactly when the tracking bucket is
\* non-empty and linked data exactly when the linked bucket is non-empty, also
\* after a run that replaced the entry's privacy_labels from the cache or a
\* scrape.
C29_SummaryAgreesWithLabels ==
    \A i \in DOMAIN outFile : summaryAgrees(outFile[i])

\* the scripts that start from fresh chart entries write summaries that agree
SummaryAgreesWithoutPrevious ==
    variant # "mergePrivacyPrev" => \A i \in DOMAIN outFile : summaryAgrees(outFile[i])

(***************************************************************************)
(* C30: the written output and the cache.                                  *)
(***************************************************************************)
\* the cache holds a record with the labels of entry e
cacheHoldsLabelsOf(e) ==
    /\ fileOf(cache, e.app_id).kind = "record"
    /\ fileOf(cache, e.app_id).rec.privacy_labels = e.privacy_labels

\* C30: whenever the output written by a run of scrape-privacy.mjs or of
\* scripts/update-apps.mjs contains privacy_labels for an app with a numeric id, the cache entry of that id holds a record with the
\* same privacy_labels, also when the cache write after a successful scrape
\* failed.
C30_OutputMatchesCache ==
    (variant \in {"enrichApps", "mergePrivacy"} /\ runs > 0 /\ pc = "idle") =>
        \A i \in DOMAIN outFile :
            (outFile[i].app_id # 0 /\ outFile[i].privacy_labels.present)
                => cacheHoldsLabelsOf(outFile[i])

\* scripts/update-apps.mjs returns the chart entry when the write fails, so
\* its output has labels only for ids whose cache file holds them
OutputMatchesCacheInMain ==
    (variant = "mergePrivacy" /\ runs > 0 /\ pc = "idle") =>
        \A i \in DOMAIN outFile :
            (outFile[i].app_id # 0 /\ outFile[i].privacy_labels.present)
                => cacheHoldsLabelsOf(outFile[i])

====
